---- MODULE Spec2Model ----
(***************************************************************************)
(* A model of the gnolledgegraph knowledge-graph server: the SQLite-backed *)
(* graph store of internal/db (entities, relations, observations), the     *)
(* database/sql connection pool it is called through, and the goroutines   *)
(* (stdio loop, HTTP handlers, SSE sessions) that call it concurrently.    *)
(***************************************************************************)
EXTENDS Integers, Sequences, FiniteSets, TLC

VARIABLES
    db,        \* the committed content of the SQLite file: the three tables and the two AUTOINCREMENT counters
    freeConn,  \* database/sql's idle connections, each "on" or "off" by its foreign_keys pragma
    call,      \* per goroutine: the GraphStore call in progress, its position and its locals
    ret,       \* the last call that returned: its arguments and what its caller received
    stdio,     \* the stdio loop: its calls of the dispatcher, the response lines written, the last one
    sessions,  \* sessionManager.sessions: session id -> the connection whose session is registered
    sess,      \* per SSE connection: its goroutine's position, its session and its event stream
    post,      \* per POST handler goroutine: its position, its locals and its answer
    hist       \* history: the GraphStore calls made, in the order they returned (a ReadGraph: began)

vars == <<db, freeConn, call, ret, stdio, sessions, sess, post, hist>>

-----------------------------------------------------------------------------
(* Bounds of the model and the small input sets. *)

MaxId == 2          \* rows inserted in the two AUTOINCREMENT tables together
MaxBatch == 2       \* items of a batch argument
ConcBatch == 1      \* items of a batch argument while two goroutines run
RpcBatch == 1       \* items of an array argument of a tool call
MaxDispatch == 2    \* calls of HandleJSONRPCMethod
MaxQueued == 1      \* requests queued in a session while stdio is served too
MaxPings == 1       \* ping events written to a connection
MaxOps == 4         \* GraphStore calls kept in the history

Procs == {"g1", "g2"}                \* goroutines calling the store concurrently
Names == {"Alice", "Company"}        \* entity names
Types == {"person", "organization"}  \* entity types
RelTypes == {"works_at"}             \* relation types
Contents == {"c1"}             \* observation contents

RECURSIVE SeqsUpTo(_, _)
SeqsUpTo(S, n) ==
    IF n = 0 THEN {<<>>}
    ELSE LET shorter == SeqsUpTo(S, n - 1)
         IN  shorter \cup {Append(s, x) : s \in {t \in shorter : Len(t) = n - 1}, x \in S}

Range(s) == {s[k] : k \in 1..Len(s)}

\* The batches offered to DeleteEntities and to AddObservations.
NameLists == SeqsUpTo(Names, MaxBatch)
ObservationLists == SeqsUpTo(Names \X Contents, MaxBatch)

-----------------------------------------------------------------------------
(* The schema and the SQL statements of internal/db. *)

\* The three tables created by the schema migrations, empty.
EmptyDB == [ents |-> {}, rels |-> {}, obs |-> {}, relSeq |-> 0, obsSeq |-> 0]

\* A connection the pool opens after Init has returned. The PRAGMA of Init is
\* executed once, on the one connection db.Exec checked out for it; a
\* connection opened later by the pool starts with the driver's default.
NewConn == "off"

\* The connection Init leaves in the pool: the one its PRAGMA ran on.
InitConn == "on"

EntityNames(d) == {e.name : e \in d.ents}

\* REFERENCES entities(name), enforced only where foreign_keys is on.
FKViolation(d, conn, refs) == conn = "on" /\ ~(refs \subseteq EntityNames(d))

\* INSERT OR REPLACE in place of INSERT OR IGNORE.
InsertOrReplaceEntity(d, name, type) ==
    [d EXCEPT !.ents = {e \in @ : e.name # name} \cup {[name |-> name, type |-> type]}]

\* INSERT OR IGNORE INTO entities(name, entity_type): name is the primary key.
InsertEntity(d, name, type) ==
    IF name \in EntityNames(d) THEN d
    ELSE [d EXCEPT !.ents = @ \cup {[name |-> name, type |-> type]}]

\* An id column without AUTOINCREMENT: the greatest stored rowid plus one.
InsertRelationReusesId(d, conn, from, to, type) ==
    LET id == IF d.rels = {} THEN 1
              ELSE (CHOOSE i \in {r.id : r \in d.rels} : \A r \in d.rels : r.id <= i) + 1
    IN  IF FKViolation(d, conn, {from, to})
        THEN [db |-> d, id |-> 0, err |-> TRUE]
        ELSE [db |-> [d EXCEPT !.rels = @ \cup {[id |-> id, from |-> from,
                                                 to |-> to, type |-> type]},
                               !.relSeq = id],
              id |-> id, err |-> FALSE]

\* INSERT INTO relations(...): id is AUTOINCREMENT.
InsertRelation(d, conn, from, to, type) ==
    IF FKViolation(d, conn, {from, to})
    THEN [db |-> d, id |-> 0, err |-> TRUE]
    ELSE [db |-> [d EXCEPT !.rels = @ \cup {[id |-> d.relSeq + 1, from |-> from,
                                             to |-> to, type |-> type]},
                           !.relSeq = @ + 1],
          id |-> d.relSeq + 1, err |-> FALSE]

\* INSERT INTO observations(...): id is AUTOINCREMENT.
InsertObservation(d, conn, entityName, content) ==
    IF FKViolation(d, conn, {entityName})
    THEN [db |-> d, id |-> 0, err |-> TRUE]
    ELSE [db |-> [d EXCEPT !.obs = @ \cup {[id |-> d.obsSeq + 1, entityName |-> entityName,
                                            content |-> content]},
                           !.obsSeq = @ + 1],
          id |-> d.obsSeq + 1, err |-> FALSE]

\* SELECT EXISTS(SELECT 1 FROM entities WHERE name = ?)
EntityExists(d, name) == name \in EntityNames(d)

\* DELETE FROM relations without its WHERE clause.
DeleteRelationsAll(d, names) == [d EXCEPT !.rels = {}]

\* DELETE FROM relations WHERE from_entity IN (names) OR to_entity IN (names)
DeleteRelationsOf(d, names) ==
    [d EXCEPT !.rels = {r \in @ : r.from \notin names /\ r.to \notin names}]

\* DELETE FROM observations WHERE entity_name IN (names)
DeleteObservationsOf(d, names) ==
    [d EXCEPT !.obs = {o \in @ : o.entityName \notin names}]

\* DELETE FROM entities bound to the first placeholder only.
DeleteEntityRowsOneName(d, conn, names) ==
    LET first == CHOOSE n \in names : TRUE
    IN  [db |-> [d EXCEPT !.ents = {e \in @ : e.name # first}], err |-> FALSE]

\* DELETE FROM entities WHERE name IN (names); a row still referenced cannot
\* be deleted where foreign_keys is on.
DeleteEntityRows(d, conn, names) ==
    LET referenced == {r.from : r \in d.rels} \cup {r.to : r \in d.rels}
                      \cup {o.entityName : o \in d.obs}
    IN  IF conn = "on" /\ (names \cap EntityNames(d) \cap referenced) # {}
        THEN [db |-> d, err |-> TRUE]
        ELSE [db |-> [d EXCEPT !.ents = {e \in @ : e.name \notin names}], err |-> FALSE]

-----------------------------------------------------------------------------
(* database/sql: the pool and transactions. *)

\* DB.conn: the most recently returned idle connection, or a new one.
Conn == IF freeConn = <<>> THEN NewConn ELSE freeConn[Len(freeConn)]

\* The pool once a statement run on Conn has returned its connection.
PoolAfterExec == IF freeConn = <<>> THEN <<NewConn>> ELSE freeConn

\* The pool while Conn is checked out by a transaction.
PoolAfterBegin == IF freeConn = <<>> THEN <<>> ELSE SubSeq(freeConn, 1, Len(freeConn) - 1)

\* tx.Rollback: the statements run in the transaction are discarded.
RollbackKeepsStatements(committed, tx) == tx
Rollback(committed, tx) == committed

-----------------------------------------------------------------------------
(* DeleteEntities: the three DELETE statements and the commit, run in one  *)
(* transaction. failAt names the step the storage engine fails at, if any. *)

NoFailure == "none"
FailPoints == {NoFailure, "relations", "observations", "entities", "commit"}

DeleteEntitiesTx(committed, conn, names, failAt) ==
    LET s1 == DeleteRelationsOf(committed, names)
        s2 == DeleteObservationsOf(s1, names)
        r3 == DeleteEntityRows(s2, conn, names)
    IN  IF failAt = "relations" THEN [db |-> Rollback(committed, committed), err |-> TRUE]
        ELSE IF failAt = "observations" THEN [db |-> Rollback(committed, s1), err |-> TRUE]
        ELSE IF failAt = "entities" \/ r3.err THEN [db |-> Rollback(committed, s2), err |-> TRUE]
        ELSE IF failAt = "commit" THEN [db |-> Rollback(committed, r3.db), err |-> TRUE]
        ELSE [db |-> r3.db, err |-> FALSE]

\* The rows of d that are not in e.
RowsRemoved(d, e) ==
    Cardinality(d.ents \ e.ents) + Cardinality(d.rels \ e.rels) + Cardinality(d.obs \ e.obs)

-----------------------------------------------------------------------------
(* The goroutines' calls. *)

Idle == [op |-> "none", pc |-> "idle", args |-> <<>>, added |-> <<>>, conn |-> "none"]

\* The last return: the call and its arguments (of a batch, the set of its
\* items), what its caller received (id, ids, err) and the number n of rows the
\* call inserted or removed; of a query, the entities and the relations it
\* returned. A call that takes several steps (the loop of AddObservations, the
\* transaction of DeleteEntities) clears it on entry.
Returned(op, args, id, ids, err, n) ==
    [op |-> op, args |-> args, id |-> id, ids |-> ids, err |-> err, n |-> n,
     entities |-> {}, relations |-> {}, observations |-> {}]

NoReturn == Returned("none", {}, 0, <<>>, FALSE, 0)

DbInit ==
    /\ db = EmptyDB
    /\ freeConn = <<InitConn>>
    /\ call = [p \in Procs |-> Idle]
    /\ ret = NoReturn
    /\ hist = <<>>

CreateEntity(p, name, type) ==
    /\ call[p].pc = "idle"
    /\ db' = InsertEntity(db, name, type)
    /\ freeConn' = PoolAfterExec
    /\ ret' = Returned("CreateEntity", <<name, type>>, 0, <<>>, FALSE,
                       Cardinality(db'.ents) - Cardinality(db.ents))
    /\ UNCHANGED call

CreateRelation(p, from, to, type) ==
    /\ call[p].pc = "idle"
    /\ LET r == InsertRelation(db, Conn, from, to, type)
       IN  /\ db' = r.db
           /\ ret' = Returned("CreateRelation", <<from, to, type>>, r.id, <<>>, r.err,
                              Cardinality(r.db.rels) - Cardinality(db.rels))
    /\ freeConn' = PoolAfterExec
    /\ UNCHANGED call

CreateObservation(p, entityName, content) ==
    /\ call[p].pc = "idle"
    /\ LET r == InsertObservation(db, Conn, entityName, content)
       IN  /\ db' = r.db
           /\ ret' = Returned("CreateObservation", <<entityName, content>>, r.id, <<>>, r.err,
                              Cardinality(r.db.obs) - Cardinality(db.obs))
    /\ freeConn' = PoolAfterExec
    /\ UNCHANGED call

\* AddObservations, entered: an empty batch returns at once.
AddObservations(p, observations) ==
    /\ call[p].pc = "idle"
    /\ IF observations = <<>>
       THEN /\ ret' = Returned("AddObservations", Range(observations), 0, <<>>, FALSE, 0)
            /\ UNCHANGED call
       ELSE /\ call' = [call EXCEPT ![p] = [Idle EXCEPT !.op = "AddObservations",
                                                        !.pc = "exists", !.args = observations]]
            /\ ret' = NoReturn
    /\ UNCHANGED <<db, freeConn>>

\* The item the loop of AddObservations is at.
CurrentItem(c) == c.args[Len(c.added) + 1]

\* The loop's existence query for the next item: the first missing entity
\* ends the call with nil and an error.
AddObservationsExists(p) ==
    /\ call[p].pc = "exists"
    /\ IF EntityExists(db, CurrentItem(call[p])[1])
       THEN /\ call' = [call EXCEPT ![p].pc = "insert"]
            /\ UNCHANGED ret
       ELSE /\ call' = [call EXCEPT ![p] = Idle]
            /\ ret' = Returned("AddObservations", Range(call[p].args), 0, <<>>, TRUE,
                               Len(call[p].added))
    /\ freeConn' = PoolAfterExec
    /\ UNCHANGED db

\* The loop's CreateObservation for the item, and the append to added.
AddObservationsInsert(p) ==
    /\ call[p].pc = "insert"
    /\ LET obs == CurrentItem(call[p])
           r == InsertObservation(db, Conn, obs[1], obs[2])
           added == Append(call[p].added, r.id)
       IN  /\ db' = r.db
           /\ IF r.err
              THEN /\ call' = [call EXCEPT ![p] = Idle]
                   /\ ret' = Returned("AddObservations", Range(call[p].args), 0, <<>>, TRUE,
                                      Len(call[p].added))
              ELSE IF Len(added) = Len(call[p].args)
              THEN /\ call' = [call EXCEPT ![p] = Idle]
                   /\ ret' = Returned("AddObservations", Range(call[p].args), 0, added, FALSE,
                                      Len(added))
              ELSE /\ call' = [call EXCEPT ![p].pc = "exists", ![p].added = added]
                   /\ UNCHANGED ret
    /\ freeConn' = PoolAfterExec

\* DeleteEntities, entered: an empty list returns at once; otherwise db.Begin
\* checks a connection out of the pool for the transaction, or fails.
DeleteEntities(p, entityNames, beginFails) ==
    /\ call[p].pc = "idle"
    /\ IF entityNames = <<>>
       THEN /\ ret' = Returned("DeleteEntities", Range(entityNames), 0, <<>>, FALSE, 0)
            /\ UNCHANGED <<call, freeConn>>
       ELSE IF beginFails
       THEN /\ ret' = Returned("DeleteEntities", Range(entityNames), 0, <<>>, TRUE, 0)
            /\ UNCHANGED <<call, freeConn>>
       ELSE /\ call' = [call EXCEPT ![p] = [Idle EXCEPT !.op = "DeleteEntities", !.pc = "tx",
                                                        !.args = entityNames, !.conn = Conn]]
            /\ freeConn' = PoolAfterBegin
            /\ ret' = NoReturn
    /\ UNCHANGED db

\* The transaction of DeleteEntities. From its first DELETE to its commit or
\* rollback it holds SQLite's write lock and no other connection sees its
\* statements, so the statements and the commit are one step for the others.
DeleteEntitiesRun(p, failAt) ==
    /\ call[p].pc = "tx"
    /\ LET r == DeleteEntitiesTx(db, call[p].conn, Range(call[p].args), failAt)
       IN  /\ db' = r.db
           /\ ret' = Returned("DeleteEntities", Range(call[p].args), 0, <<>>, r.err,
                              RowsRemoved(db, r.db))
    /\ freeConn' = Append(freeConn, call[p].conn)
    /\ call' = [call EXCEPT ![p] = Idle]

-----------------------------------------------------------------------------
(* The store's other operations, run on one connection from call to return. *)

\* ReadGraph: the three SELECTs without a WHERE clause.
ReadGraph(d) == [entities |-> d.ents, relations |-> d.rels, observations |-> d.obs]

\* AddObservations from its first item to its return.
RECURSIVE AddObservationsLoop(_, _, _, _)
AddObservationsLoop(d, conn, observations, added) ==
    IF observations = <<>> THEN [db |-> d, ids |-> added, err |-> FALSE]
    ELSE LET obs == Head(observations)
         IN  IF ~EntityExists(d, obs[1]) THEN [db |-> d, ids |-> <<>>, err |-> TRUE]
             ELSE LET r == InsertObservation(d, conn, obs[1], obs[2])
                  IN  IF r.err THEN [db |-> d, ids |-> <<>>, err |-> TRUE]
                      ELSE AddObservationsLoop(r.db, conn, Tail(observations),
                                               Append(added, r.id))

\* DeleteEntities from its entry to its return; failAt "begin" is db.Begin failing.
DeleteEntitiesCall(d, conn, entityNames, failAt) ==
    IF entityNames = <<>> THEN [db |-> d, err |-> FALSE]
    ELSE IF failAt = "begin" THEN [db |-> d, err |-> TRUE]
    ELSE DeleteEntitiesTx(d, conn, Range(entityNames), failAt)

\* A DELETE that leaves out the entity_name of the item.
RECURSIVE DeleteObservationsOfAnyEntity(_, _)
DeleteObservationsOfAnyEntity(d, deletions) ==
    IF deletions = <<>> THEN d
    ELSE LET deletion == Head(deletions)
             d1 == [d EXCEPT !.obs = {o \in @ : o.content \notin Range(deletion.observations)}]
         IN  DeleteObservationsOfAnyEntity(d1, Tail(deletions))

\* DeleteObservations: per item with a non-empty list,
\* DELETE FROM observations WHERE entity_name = ? AND content IN (...)
RECURSIVE DeleteObservations(_, _)
DeleteObservations(d, deletions) ==
    IF deletions = <<>> THEN d
    ELSE LET deletion == Head(deletions)
             d1 == [d EXCEPT !.obs = {o \in @ : ~(/\ o.entityName = deletion.entityName
                                                  /\ o.content \in Range(deletion.observations))}]
         IN  DeleteObservations(d1, Tail(deletions))

\* DeleteRelations: per item,
\* DELETE FROM relations WHERE from_entity = ? AND to_entity = ? AND relation_type = ?
RECURSIVE DeleteRelations(_, _)
DeleteRelations(d, relations) ==
    IF relations = <<>> THEN d
    ELSE LET rel == Head(relations)
             d1 == [d EXCEPT !.rels = {r \in @ : ~(/\ r.from = rel.from /\ r.to = rel.to
                                                   /\ r.type = rel.type)}]
         IN  DeleteRelations(d1, Tail(relations))

\* The relations with an endpoint among names.
RelationsOf(d, names) == {r \in d.rels : r.from \in names \/ r.to \in names}

\* OpenNodes: the entities named, and, when there is one, the relations with
\* an endpoint among the names asked for.
OpenNodes(d, nodeNames) ==
    LET entities == {e \in d.ents : e.name \in Range(nodeNames)}
    IN  [entities |-> entities,
         relations |-> IF entities = {} THEN {} ELSE RelationsOf(d, Range(nodeNames))]

\* The characters of the strings of the model.
Chars ==
    [Alice |-> <<"A", "l", "i", "c", "e">>, Company |-> <<"C", "o", "m", "p", "a", "n", "y">>,
     person |-> <<"p", "e", "r", "s", "o", "n">>,
     organization |-> <<"o", "r", "g", "a", "n", "i", "z", "a", "t", "i", "o", "n">>,
     c1 |-> <<"c", "1">>, ALI |-> <<"A", "L", "I">>, on |-> <<"o", "n">>]
    @@ ("%" :> <<"%">>) @@ ("A_i" :> <<"A", "_", "i">>)

Queries == {"ALI", "on"}

\* The queries of a search: those, the content of an observation, and two
\* with a character that LIKE reads as a wildcard.
SearchQueries == Queries \cup {"c1", "%", "A_i"}

UpperCase == <<"A", "C", "I", "L">>
LowerCase == <<"a", "c", "i", "l">>

\* strings.ToLower and SQL's LOWER(), character by character.
ToLower(s) ==
    [k \in 1..Len(s) |->
        IF \E u \in 1..Len(UpperCase) : UpperCase[u] = s[k]
        THEN LowerCase[CHOOSE u \in 1..Len(UpperCase) : UpperCase[u] = s[k]]
        ELSE s[k]]

\* text LIKE pattern: % matches any run of characters, _ any one character,
\* letters match without regard to case.
RECURSIVE Like(_, _)
Like(text, pattern) ==
    IF pattern = <<>> THEN text = <<>>
    ELSE IF Head(pattern) = "%"
    THEN Like(text, Tail(pattern)) \/ (text # <<>> /\ Like(Tail(text), pattern))
    ELSE /\ text # <<>>
         /\ Head(pattern) = "_" \/ ToLower(<<Head(text)>>) = ToLower(<<Head(pattern)>>)
         /\ Like(Tail(text), Tail(pattern))

\* SearchNodes: the entities whose lowered name, type or an observation's
\* content is LIKE %lowered query%, and the relations of the entities found.
SearchNodes(d, query) ==
    LET searchPattern == <<"%">> \o ToLower(Chars[query]) \o <<"%">>
        Hit(s) == Like(ToLower(Chars[s]), searchPattern)
        entities == {e \in d.ents :
                        \/ Hit(e.name) \/ Hit(e.type)
                        \/ \E o \in d.obs : o.entityName = e.name /\ Hit(o.content)}
    IN  [entities |-> entities,
         relations |-> IF entities = {} THEN {} ELSE RelationsOf(d, {e.name : e \in entities})]

\* ReadGraph, its first query: SELECT name, entity_type FROM entities. Each of
\* the three queries is a statement of its own on a pooled connection; the
\* rows read so far are kept in the locals ents and rels.
ReadGraphEntities(p) ==
    /\ call[p].pc = "idle"
    /\ call' = [call EXCEPT ![p] = [Idle EXCEPT !.op = "ReadGraph", !.pc = "relations",
                                                !.added = <<db.ents>>]]
    /\ freeConn' = PoolAfterExec
    /\ UNCHANGED <<db, ret>>

\* Its second query: SELECT ... FROM relations.
ReadGraphRelations(p) ==
    /\ call[p].pc = "relations"
    /\ call' = [call EXCEPT ![p].pc = "observations", ![p].added = Append(@, db.rels)]
    /\ freeConn' = PoolAfterExec
    /\ UNCHANGED <<db, ret>>

\* Its third query, SELECT ... FROM observations, and its return.
ReadGraphObservations(p) ==
    /\ call[p].pc = "observations"
    /\ ret' = [Returned("ReadGraph", <<>>, 0, <<>>, FALSE, 0)
                  EXCEPT !.entities = call[p].added[1], !.relations = call[p].added[2],
                         !.observations = db.obs]
    /\ call' = [call EXCEPT ![p] = Idle]
    /\ freeConn' = PoolAfterExec
    /\ UNCHANGED db

\* DeleteRelations from its entry to its return: the statements run one by one
\* through db.Exec, each committed on its own; failAt is the item whose
\* statement returns an error (0: none does), which ends the loop.
DeleteRelationsCall(d, relations, failAt) ==
    IF failAt = 0 THEN [db |-> DeleteRelations(d, relations), err |-> FALSE]
    ELSE [db |-> DeleteRelations(d, SubSeq(relations, 1, failAt - 1)), err |-> TRUE]

\* The relation triples asked to be deleted: the stored ones and one of a
\* type that is never stored.
RelationTriples ==
    {[from |-> "Alice", to |-> t, type |-> ty] :
        t \in Names, ty \in RelTypes \cup {"knows"}}
RelationLists == SeqsUpTo(RelationTriples, MaxBatch)

\* A goroutine calls DeleteRelations.
CallDeleteRelations(p, relations, failAt) ==
    /\ call[p].pc = "idle"
    /\ failAt \in 0..Len(relations)
    /\ LET r == DeleteRelationsCall(db, relations, failAt)
       IN  /\ db' = r.db
           /\ ret' = Returned("DeleteRelations", relations, 0, <<>>, r.err,
                              RowsRemoved(db, r.db))
    /\ freeConn' = IF relations = <<>> THEN freeConn ELSE PoolAfterExec
    /\ UNCHANGED call

\* DeleteObservations from its entry to its return; failAt is the item whose
\* statement returns an error (0: none does). An item with an empty list runs
\* no statement.
DeleteObservationsCall(d, deletions, failAt) ==
    IF failAt = 0 THEN [db |-> DeleteObservations(d, deletions), err |-> FALSE]
    ELSE [db |-> DeleteObservations(d, SubSeq(deletions, 1, failAt - 1)), err |-> TRUE]

\* The items asked to be deleted: with an empty list, with the stored content
\* and with a content that differs from it by the case of a letter.
Deletions ==
    {[entityName |-> "Alice", observations |-> o] : o \in {<<>>, <<"C1", "c1">>}}
    \cup {[entityName |-> "Company", observations |-> <<"C1">>]}
DeletionLists == SeqsUpTo(Deletions, MaxBatch)

\* A goroutine calls DeleteObservations.
CallDeleteObservations(p, deletions, failAt) ==
    /\ call[p].pc = "idle"
    /\ failAt \in 0..Len(deletions)
    /\ failAt > 0 => deletions[failAt].observations # <<>>
    /\ LET r == DeleteObservationsCall(db, deletions, failAt)
       IN  /\ db' = r.db
           /\ ret' = Returned("DeleteObservations", deletions, 0, <<>>, r.err,
                              RowsRemoved(db, r.db))
    /\ freeConn' = IF \A k \in 1..Len(deletions) : deletions[k].observations = <<>>
                   THEN freeConn ELSE PoolAfterExec
    /\ UNCHANGED call

\* A goroutine calls SearchNodes: two SELECTs on a pooled connection.
CallSearchNodes(p, query) ==
    /\ call[p].pc = "idle"
    /\ LET r == SearchNodes(db, query)
       IN  ret' = [Returned("SearchNodes", <<query>>, 0, <<>>, FALSE, 0)
                      EXCEPT !.entities = r.entities, !.relations = r.relations]
    /\ freeConn' = PoolAfterExec
    /\ UNCHANGED <<db, call>>

\* A goroutine calls OpenNodes.
CallOpenNodes(p, nodeNames) ==
    /\ call[p].pc = "idle"
    /\ LET r == OpenNodes(db, nodeNames)
       IN  ret' = [Returned("OpenNodes", nodeNames, 0, <<>>, FALSE, 0)
                      EXCEPT !.entities = r.entities, !.relations = r.relations]
    /\ freeConn' = IF nodeNames = <<>> THEN freeConn ELSE PoolAfterExec
    /\ UNCHANGED <<db, call>>

-----------------------------------------------------------------------------
(* JSON-RPC messages of package mcp, as json.Unmarshal decodes them.       *)

\* A member that is absent, null, or not of the type the code asserts.
Missing == "<missing>"

\* req.ID == nil
NilID == "<nil>"

\* The id member of an incoming message: absent, null, or the number 1.
WireIds == {"absent", "null", "1"}

\* ID is an interface{} with omitempty: an absent and a null id both decode to nil.
DecodeID(wire) == IF wire \in {"absent", "null"} THEN NilID ELSE wire

\* The string members the tools read from arguments.
StrFields == {"query", "name", "entity_type", "from_entity", "to_entity",
              "relation_type", "entity_name", "content"}

\* arguments holding the one array member key, or none.
ArrayArguments(key, items) ==
    [key |-> key, items |-> items, str |-> [f \in StrFields |-> Missing]]

\* arguments holding the string members of the record given.
StringArguments(members) ==
    [key |-> "none", items |-> <<>>,
     str |-> [f \in StrFields |-> IF f \in DOMAIN members THEN members[f] ELSE Missing]]

\* JSONRPCRequest for tools/call. object: params is a JSON object; name: its
\* string member name; hasArguments: its member arguments is a JSON object.
ToolCallParams(name, arguments) ==
    [object |-> TRUE, name |-> name, hasArguments |-> TRUE, arguments |-> arguments]

NoParams ==
    [object |-> FALSE, name |-> Missing, hasArguments |-> FALSE,
     arguments |-> ArrayArguments("none", <<>>)]

JSONRPCRequest(jsonrpc, id, method, params) ==
    [jsonrpc |-> jsonrpc, id |-> id, method |-> method, params |-> params]

\* The text of a tool result or the message of an error: its wording and the
\* number it reports.
Text(tag, n) == [tag |-> tag, n |-> n]

\* JSONRPCResponse: kind "result" carries Result (a ToolCallResult for
\* tools/call), kind "error" carries Error with its code.
JSONRPCResponse(id, kind, code, isError, text) ==
    [jsonrpc |-> "2.0", id |-> id, kind |-> kind, code |-> code,
     isError |-> isError, text |-> text]

\* The members json.Marshal writes for a response: result and error are
\* omitempty, written when Result or Error is set.
Members(resp) ==
    {"jsonrpc", "id"} \cup (IF resp.kind = "result" THEN {"result"} ELSE {})
                     \cup (IF resp.kind = "error" THEN {"error"} ELSE {})

ResultResponse(id, isError, text) == JSONRPCResponse(id, "result", 0, isError, text)
ErrorResponse(id, code, message) == JSONRPCResponse(id, "error", code, FALSE, Text(message, 0))

\* What a tool handler returns: the store after it, and (ToolCallResult, error).
ToolReturn(d, text) == [db |-> d, err |-> FALSE, text |-> text]
ToolError(d, message) == [db |-> d, err |-> TRUE, text |-> Text(message, 0)]

-----------------------------------------------------------------------------
(* The tool handlers. *)

handleReadGraphTool(d) ==
    ToolReturn(d, Text("graph", Cardinality(ReadGraph(d).entities)))

handleCreateEntityTool(d, conn, arguments) ==
    IF arguments.str["name"] = Missing \/ arguments.str["entity_type"] = Missing
    THEN ToolError(d, "missing required parameters: name, entity_type")
    ELSE ToolReturn(InsertEntity(d, arguments.str["name"], arguments.str["entity_type"]),
                    Text("Successfully created entity", 1))

handleCreateRelationTool(d, conn, arguments) ==
    IF \/ arguments.str["from_entity"] = Missing \/ arguments.str["to_entity"] = Missing
       \/ arguments.str["relation_type"] = Missing
    THEN ToolError(d, "missing required parameters: from_entity, to_entity, relation_type")
    ELSE LET r == InsertRelation(d, conn, arguments.str["from_entity"],
                                 arguments.str["to_entity"], arguments.str["relation_type"])
         IN  IF r.err THEN ToolError(d, "FOREIGN KEY constraint failed")
             ELSE ToolReturn(r.db, Text("Successfully created relation (ID)", r.id))

handleCreateObservationTool(d, conn, arguments) ==
    IF arguments.str["entity_name"] = Missing \/ arguments.str["content"] = Missing
    THEN ToolError(d, "missing required parameters: entity_name, content")
    ELSE LET r == InsertObservation(d, conn, arguments.str["entity_name"],
                                    arguments.str["content"])
         IN  IF r.err THEN ToolError(d, "FOREIGN KEY constraint failed")
             ELSE ToolReturn(r.db, Text("Successfully created observation (ID)", r.id))

\* The elements of a JSON array that are strings.
RECURSIVE Strings(_)
Strings(array) ==
    IF array = <<>> THEN <<>>
    ELSE IF Head(array) = Missing THEN Strings(Tail(array))
    ELSE <<Head(array)>> \o Strings(Tail(array))

\* The inner loop of create_entities: db.CreateObservation for every string of
\* the item's observations, its error dropped.
RECURSIVE CreateObservationsOf(_, _, _, _)
CreateObservationsOf(d, conn, name, observations) ==
    IF observations = <<>> THEN d
    ELSE CreateObservationsOf(InsertObservation(d, conn, name, Head(observations)).db,
                              conn, name, Tail(observations))

RECURSIVE CreateEntitiesLoop(_, _, _, _)
CreateEntitiesLoop(d, conn, entities, createdEntities) ==
    IF entities = <<>> THEN [db |-> d, created |-> createdEntities]
    ELSE LET entity == Head(entities)
         IN  IF ~entity.object \/ entity.name = Missing \/ entity.entityType = Missing
             THEN CreateEntitiesLoop(d, conn, Tail(entities), createdEntities)
             ELSE CreateEntitiesLoop(
                      CreateObservationsOf(InsertEntity(d, entity.name, entity.entityType),
                                           conn, entity.name, Strings(entity.observations)),
                      conn, Tail(entities), Append(createdEntities, entity.name))

handleCreateEntitiesToolMCP(d, conn, arguments) ==
    IF arguments.key # "entities" THEN ToolError(d, "missing or invalid entities parameter")
    ELSE LET r == CreateEntitiesLoop(d, conn, arguments.items, <<>>)
         IN  ToolReturn(r.db, Text("Successfully created %d entities", Len(r.created)))

\* The loop of create_relations: an item whose CreateRelation returns an error
\* is passed over like an item that is not well formed.
RECURSIVE CreateRelationsLoop(_, _, _, _)
CreateRelationsLoop(d, conn, relations, createdIDs) ==
    IF relations = <<>> THEN [db |-> d, created |-> createdIDs]
    ELSE LET relation == Head(relations)
         IN  IF \/ ~relation.object \/ relation.from = Missing \/ relation.to = Missing
                \/ relation.relationType = Missing
             THEN CreateRelationsLoop(d, conn, Tail(relations), createdIDs)
             ELSE LET r == InsertRelation(d, conn, relation.from, relation.to,
                                          relation.relationType)
                  IN  IF r.err THEN CreateRelationsLoop(d, conn, Tail(relations), createdIDs)
                      ELSE CreateRelationsLoop(r.db, conn, Tail(relations),
                                               Append(createdIDs, r.id))

handleCreateRelationsToolMCP(d, conn, arguments) ==
    IF arguments.key # "relations" THEN ToolError(d, "missing or invalid relations parameter")
    ELSE LET r == CreateRelationsLoop(d, conn, arguments.items, <<>>)
         IN  ToolReturn(r.db, Text("Successfully created %d relations", Len(r.created)))

\* The items of add_observations that are objects with both string members.
RECURSIVE ObservationItems(_)
ObservationItems(items) ==
    IF items = <<>> THEN <<>>
    ELSE LET obs == Head(items)
         IN  IF ~obs.object \/ obs.entityName = Missing \/ obs.contents = Missing
             THEN ObservationItems(Tail(items))
             ELSE <<<<obs.entityName, obs.contents>>>> \o ObservationItems(Tail(items))

handleAddObservationsToolMCP(d, conn, arguments) ==
    IF arguments.key # "observations"
    THEN ToolError(d, "missing or invalid observations parameter")
    ELSE LET r == AddObservationsLoop(d, conn, ObservationItems(arguments.items), <<>>)
         IN  IF r.err THEN ToolError(r.db, "entity does not exist")
             ELSE ToolReturn(r.db, Text("added ids", Len(r.ids)))

handleDeleteEntitiesToolMCP(d, conn, arguments, failAt) ==
    IF arguments.key # "entityNames"
    THEN ToolError(d, "missing or invalid entityNames parameter")
    ELSE LET entityNames == Strings(arguments.items)
             r == DeleteEntitiesCall(d, conn, entityNames, failAt)
         IN  IF r.err THEN ToolError(r.db, "delete entities failed")
             ELSE ToolReturn(r.db, Text("Successfully deleted %d entities", Len(entityNames)))

\* The items of delete_observations that are objects with a string entityName
\* and an array observations, of which the strings are kept.
RECURSIVE DeletionItems(_)
DeletionItems(items) ==
    IF items = <<>> THEN <<>>
    ELSE LET deletion == Head(items)
         IN  IF ~deletion.object \/ deletion.entityName = Missing \/ ~deletion.hasObservations
             THEN DeletionItems(Tail(items))
             ELSE <<[entityName |-> deletion.entityName,
                     observations |-> Strings(deletion.observations)]>>
                  \o DeletionItems(Tail(items))

handleDeleteObservationsToolMCP(d, arguments) ==
    IF arguments.key # "deletions" THEN ToolError(d, "missing or invalid deletions parameter")
    ELSE LET deletions == DeletionItems(arguments.items)
         IN  ToolReturn(DeleteObservations(d, deletions),
                        Text("Successfully processed deletion of observations for %d entities",
                             Len(deletions)))

\* The items of delete_relations that are objects with the three string members.
RECURSIVE RelationItems(_)
RelationItems(items) ==
    IF items = <<>> THEN <<>>
    ELSE LET relation == Head(items)
         IN  IF \/ ~relation.object \/ relation.from = Missing \/ relation.to = Missing
                \/ relation.relationType = Missing
             THEN RelationItems(Tail(items))
             ELSE <<[from |-> relation.from, to |-> relation.to,
                     type |-> relation.relationType]>> \o RelationItems(Tail(items))

handleDeleteRelationsToolMCP(d, arguments) ==
    IF arguments.key # "relations" THEN ToolError(d, "missing or invalid relations parameter")
    ELSE LET relations == RelationItems(arguments.items)
         IN  ToolReturn(DeleteRelations(d, relations),
                        Text("Successfully processed deletion of %d relations", Len(relations)))

handleSearchNodesToolMCP(d, arguments) ==
    IF arguments.str["query"] = Missing THEN ToolError(d, "missing or invalid query parameter")
    ELSE ToolReturn(d, Text("nodes", Cardinality(SearchNodes(d, arguments.str["query"]).entities)))

handleOpenNodesToolMCP(d, arguments) ==
    IF arguments.key # "names" THEN ToolError(d, "missing or invalid names parameter")
    ELSE ToolReturn(d, Text("nodes", Cardinality(OpenNodes(d, Strings(arguments.items)).entities)))

-----------------------------------------------------------------------------
(* The dispatcher. *)

\* The tools of the catalogue of tools/list, and the older names still served.
ToolNames == {"read_graph", "create_entities", "create_relations", "add_observations",
              "delete_entities", "delete_observations", "delete_relations",
              "search_nodes", "open_nodes"}
LegacyToolNames == {"create_entity", "create_relation", "create_observation"}

\* The switch of handleToolCall over the tool's name.
CallTool(d, conn, name, arguments, failAt) ==
    CASE name = "read_graph" -> handleReadGraphTool(d)
      [] name = "create_entities" -> handleCreateEntitiesToolMCP(d, conn, arguments)
      [] name = "create_relations" -> handleCreateRelationsToolMCP(d, conn, arguments)
      [] name = "add_observations" -> handleAddObservationsToolMCP(d, conn, arguments)
      [] name = "delete_entities" -> handleDeleteEntitiesToolMCP(d, conn, arguments, failAt)
      [] name = "delete_observations" -> handleDeleteObservationsToolMCP(d, arguments)
      [] name = "delete_relations" -> handleDeleteRelationsToolMCP(d, arguments)
      [] name = "search_nodes" -> handleSearchNodesToolMCP(d, arguments)
      [] name = "open_nodes" -> handleOpenNodesToolMCP(d, arguments)
      [] name = "create_entity" -> handleCreateEntityTool(d, conn, arguments)
      [] name = "create_relation" -> handleCreateRelationTool(d, conn, arguments)
      [] name = "create_observation" -> handleCreateObservationTool(d, conn, arguments)

\* A switch without the cases of the older names.
handleToolCallCatalogueOnly(d, conn, req, failAt) ==
    IF ~req.params.object
    THEN [db |-> d, resp |-> ErrorResponse(req.id, -32602, "Invalid params")]
    ELSE IF req.params.name = Missing \/ ~req.params.hasArguments
    THEN [db |-> d, resp |-> ErrorResponse(req.id, -32602, "Missing name or arguments")]
    ELSE IF req.params.name \notin ToolNames
    THEN [db |-> d, resp |-> ErrorResponse(req.id, -32601, "Unknown tool")]
    ELSE LET r == CallTool(d, conn, req.params.name, req.params.arguments, failAt)
         IN  [db |-> r.db, resp |-> ResultResponse(req.id, r.err, r.text)]

\* handleToolCall: a returned error becomes a result with IsError set, in the
\* envelope of a success.
handleToolCall(d, conn, req, failAt) ==
    IF ~req.params.object
    THEN [db |-> d, resp |-> ErrorResponse(req.id, -32602, "Invalid params")]
    ELSE IF req.params.name = Missing \/ ~req.params.hasArguments
    THEN [db |-> d, resp |-> ErrorResponse(req.id, -32602, "Missing name or arguments")]
    ELSE IF req.params.name \notin ToolNames \cup LegacyToolNames
    THEN [db |-> d, resp |-> ErrorResponse(req.id, -32601, "Unknown tool")]
    ELSE LET r == CallTool(d, conn, req.params.name, req.params.arguments, failAt)
         IN  [db |-> r.db, resp |-> ResultResponse(req.id, r.err, r.text)]

\* A dispatcher whose default case answers "Invalid Request".
HandleJSONRPCMethodInvalidRequest(d, conn, req, failAt) ==
    CASE req.method = "initialize" ->
            [db |-> d, resp |-> ResultResponse(req.id, FALSE, Text("initialize", 0))]
      [] req.method = "tools/list" ->
            [db |-> d, resp |-> ResultResponse(req.id, FALSE,
                                               Text("tools", Cardinality(ToolNames)))]
      [] req.method = "tools/call" -> handleToolCall(d, conn, req, failAt)
      [] OTHER -> [db |-> d, resp |-> ErrorResponse(req.id, -32600, "Invalid Request")]

\* HandleJSONRPCMethod: the store after the call and the response returned.
HandleJSONRPCMethod(d, conn, req, failAt) ==
    CASE req.method = "initialize" ->
            [db |-> d, resp |-> ResultResponse(req.id, FALSE, Text("initialize", 0))]
      [] req.method = "tools/list" ->
            [db |-> d, resp |-> ResultResponse(req.id, FALSE,
                                               Text("tools", Cardinality(ToolNames)))]
      [] req.method = "tools/call" -> handleToolCall(d, conn, req, failAt)
      [] OTHER -> [db |-> d, resp |-> ErrorResponse(req.id, -32601, "Method not found")]

-----------------------------------------------------------------------------
(* The transports' handling of one message. *)

\* A line of stdin or the body of a POST: blank, not a JSON request, or a JSON
\* request with its members.
Line(kind, jsonrpc, id, method, params) ==
    [kind |-> kind, jsonrpc |-> jsonrpc, id |-> id, method |-> method, params |-> params]

BlankLine == Line("blank", "", "absent", "", NoParams)
GarbageLine == Line("garbage", "", "absent", "", NoParams)

\* json.Unmarshal of a line into a JSONRPCRequest.
Decode(line) == JSONRPCRequest(line.jsonrpc, DecodeID(line.id), line.method, line.params)

\* What handling one message did: the store after it, the responses emitted
\* (none or one) and the number of calls of HandleJSONRPCMethod.
Handled(d, out, calls) == [db |-> d, out |-> out, calls |-> calls]

\* A loop body that writes the response whatever the id.
ProcessLineAnswersAll(d, conn, line, failAt) ==
    IF line.kind # "json" THEN Handled(d, <<>>, 0)
    ELSE LET r == HandleJSONRPCMethod(d, conn, Decode(line), failAt)
         IN  Handled(r.db, <<r.resp>>, 1)

\* The body of the loop of handleStdioMCP for one line.
ProcessLine(d, conn, line, failAt) ==
    IF line.kind # "json" THEN Handled(d, <<>>, 0)
    ELSE LET req == Decode(line)
             r == HandleJSONRPCMethod(d, conn, req, failAt)
         IN  IF req.id # NilID THEN Handled(r.db, <<r.resp>>, 1)
             ELSE Handled(r.db, <<>>, 1)

\* The message case of the select of handleSSEConnection.
ProcessMessage(d, conn, msg, failAt) ==
    LET r == HandleJSONRPCMethod(d, conn, msg, failAt)
    IN  IF msg.id # NilID THEN Handled(r.db, <<r.resp>>, 1)
        ELSE Handled(r.db, <<>>, 1)

\* The storage failures a message's handling can meet.
Failures(line) ==
    IF line.kind = "json" /\ line.method = "tools/call" /\ line.params.name = "delete_entities"
    THEN FailPoints \cup {"begin"}
    ELSE {NoFailure}

-----------------------------------------------------------------------------
(* The messages offered to the server. *)

EntityItem(name, entityType, observations) ==
    [object |-> TRUE, name |-> name, entityType |-> entityType, observations |-> observations]
RelationItem(from, to, relationType) ==
    [object |-> TRUE, from |-> from, to |-> to, relationType |-> relationType]
ObservationItem(entityName, contents) ==
    [object |-> TRUE, entityName |-> entityName, contents |-> contents]
DeletionItem(entityName, hasObservations, observations) ==
    [object |-> TRUE, entityName |-> entityName, hasObservations |-> hasObservations,
     observations |-> observations]
NotAnObject == [object |-> FALSE]

EntityInputs ==
    {EntityItem(n, t, o) : n \in Names, t \in Types, o \in {<<>>, <<"c1">>}}
    \cup {EntityItem(Missing, "person", <<>>), NotAnObject}
RelationInputs ==
    {RelationItem(f, t, ty) : f \in Names, t \in Names, ty \in RelTypes}
    \cup {RelationItem(Missing, "Alice", "works_at"), NotAnObject}
ObservationInputs ==
    {ObservationItem(n, c) : n \in Names, c \in Contents}
    \cup {ObservationItem("Alice", Missing)}
DeletionInputs ==
    {DeletionItem(n, TRUE, o) : n \in Names, o \in {<<>>, <<"c1">>}}
    \cup {DeletionItem("Alice", FALSE, <<>>)}
NameInputs == Names \cup {Missing}

NoArguments == ArrayArguments("none", <<>>)

\* The params of tools/call offered, with arrays of at most b items.
ToolCalls(b) ==
    {ToolCallParams(t, NoArguments) : t \in ToolNames \cup LegacyToolNames \cup {"no_such_tool"}}
    \cup {ToolCallParams("create_entities", ArrayArguments("entities", s)) :
             s \in SeqsUpTo(EntityInputs, b)}
    \cup {ToolCallParams(t, ArrayArguments("relations", s)) :
             t \in {"create_relations", "delete_relations"}, s \in SeqsUpTo(RelationInputs, b)}
    \cup {ToolCallParams("add_observations", ArrayArguments("observations", s)) :
             s \in SeqsUpTo(ObservationInputs, b)}
    \cup {ToolCallParams("delete_entities", ArrayArguments("entityNames", s)) :
             s \in SeqsUpTo(NameInputs, b)}
    \cup {ToolCallParams("delete_observations", ArrayArguments("deletions", s)) :
             s \in SeqsUpTo(DeletionInputs, b)}
    \cup {ToolCallParams("open_nodes", ArrayArguments("names", s)) : s \in SeqsUpTo(NameInputs, b)}
    \cup {ToolCallParams("search_nodes", StringArguments([query |-> q])) : q \in Queries}
    \cup {ToolCallParams("create_entity", StringArguments([name |-> n, entity_type |-> t])) :
             n \in Names, t \in Types}
    \cup {ToolCallParams("create_relation",
                         StringArguments([from_entity |-> f, to_entity |-> t,
                                          relation_type |-> ty])) :
             f \in Names, t \in Names, ty \in RelTypes}
    \cup {ToolCallParams("create_observation",
                         StringArguments([entity_name |-> n, content |-> c])) :
             n \in Names, c \in Contents}
    \cup {NoParams,
          [ToolCallParams("read_graph", NoArguments) EXCEPT !.name = Missing],
          [ToolCallParams("read_graph", NoArguments) EXCEPT !.hasArguments = FALSE]}

\* The lines offered on stdin: every method with every id, and the lines
\* that are no request.
Lines(b) ==
    {BlankLine, GarbageLine}
    \cup {Line("json", "2.0", id, m, NoParams) :
             id \in WireIds, m \in {"initialize", "tools/list", "notifications/initialized"}}
    \cup {Line("json", "2.0", id, "tools/call", p) : id \in WireIds, p \in ToolCalls(b)}

\* A few of them: the messages offered while several transports are served.
CreateAlice ==
    ToolCallParams("create_entities",
                   ArrayArguments("entities", <<EntityItem("Alice", "person", <<>>)>>))
FewLines ==
    {BlankLine, GarbageLine, Line("json", "1.0", "1", "initialize", NoParams)}
    \cup {Line("json", "2.0", id, "initialize", NoParams) : id \in WireIds}
    \cup {Line("json", "2.0", id, "tools/call", CreateAlice) : id \in WireIds}

\* The requests offered to the dispatcher: every method, with params of
\* every shape handleToolCall tells apart.
RpcParams ==
    {NoParams,
     [ToolCallParams("read_graph", NoArguments) EXCEPT !.name = Missing],
     [ToolCallParams("read_graph", NoArguments) EXCEPT !.hasArguments = FALSE],
     [ToolCallParams("no_such_tool", NoArguments) EXCEPT !.hasArguments = FALSE],
     ToolCallParams("no_such_tool", NoArguments),
     ToolCallParams("read_graph", NoArguments),
     ToolCallParams("create_relation",
                    StringArguments([from_entity |-> "Alice", to_entity |-> "Alice",
                                     relation_type |-> "works_at"])),
     CreateAlice}
    \cup {ToolCallParams("create_entity", StringArguments([name |-> n, entity_type |-> t])) :
             n \in Names, t \in Types}
    \cup {ToolCallParams("create_observation",
                         StringArguments([entity_name |-> n, content |-> c])) :
             n \in Names, c \in Contents}
RpcLines ==
    {GarbageLine}
    \cup {Line("json", "2.0", id, "tools/call", p) : id \in WireIds, p \in RpcParams}
    \cup {Line("json", v, id, m, p) :
             v \in {"2.0", "1.0"}, id \in WireIds,
             m \in {"initialize", "tools/list", "no/such/method", ""},
             p \in {NoParams, CreateAlice}}

\* The bodies posted while the queue of a session is filled.
PostBodies ==
    {GarbageLine, Line("json", "1.0", "1", "initialize", NoParams),
     Line("json", "2.0", "1", "initialize", NoParams)}

-----------------------------------------------------------------------------
(* The stdio loop, the SSE connections, the session registry and the POST   *)
(* handlers.                                                                *)

SSEConns == {"sse1", "sse2"}       \* goroutines serving a GET /sse
Handlers == {"h1", "h2"}           \* goroutines serving a POST /messages
SessionIds == {"s1", "s2"}         \* values of time.Now().UnixNano() at connection
NoSession == "none"

\* make(chan JSONRPCRequest, 10)
QueueCap == 10

NoResponse == JSONRPCResponse(NilID, "none", 0, FALSE, Text("", 0))
NoRequest == JSONRPCRequest("", NilID, "", NoParams)

\* An MCPSession and the goroutine of its connection. sendq: the POST handlers
\* blocked sending on messageChan, first come first. hello: the events
\* written before the loop, in their order. calls: the loop's calls of the
\* dispatcher. messages, last: the message events written and the last of
\* them. pings: the ping events written. broken: writes to the connection
\* fail, from now on. cancelled: r.Context() is done.
Unborn ==
    [pc |-> "unborn", sessionID |-> "", messageChan |-> <<>>, sendq |-> <<>>,
     hello |-> <<>>, calls |-> 0, messages |-> 0, last |-> NoResponse, pings |-> 0,
     broken |-> FALSE, cancelled |-> FALSE, status |-> 0, lock |-> FALSE]

\* A POST handler: the X-Session-ID header of its request, the session it
\* looked up, the request it decoded, the status it answered (0: none) and
\* the JSON-RPC response in the body of its answer, if any.
Waiting ==
    [pc |-> "idle", sessionID |-> "", session |-> NoSession, req |-> NoRequest, status |-> 0,
     resp |-> NoResponse, rlock |-> FALSE]

Answered(status) == [Waiting EXCEPT !.pc = "done", !.status = status]

\* The handler p answers status after its lookup.
Answer(p, status) == [Answered(status) EXCEPT !.sessionID = p.sessionID]

McpInit ==
    /\ stdio = [calls |-> 0, n |-> 0, last |-> NoResponse, stopped |-> FALSE]
    /\ sessions = [id \in SessionIds |-> NoSession]
    /\ sess = [c \in SSEConns |-> Unborn]
    /\ post = [h \in Handlers |-> Waiting]

Init == DbInit /\ McpInit

storeVars == <<db, freeConn, call, ret>>
mcpVars == <<stdio, sessions, sess, post>>

\* The calls of HandleJSONRPCMethod made so far.
RECURSIVE Sum(_, _)
Sum(f, S) == IF S = {} THEN 0 ELSE LET x == CHOOSE x \in S : TRUE IN f[x] + Sum(f, S \ {x})
Dispatched == stdio.calls + Sum([c \in SSEConns |-> sess[c].calls], SSEConns)

\* handleStdioMCP: one turn of the loop, for the line scanner.Scan() has
\* delivered.
Stdio(line, failAt) ==
    /\ ~stdio.stopped
    /\ Dispatched < MaxDispatch
    /\ LET r == ProcessLine(db, Conn, line, failAt)
       IN  /\ db' = r.db
           /\ stdio' = [calls |-> stdio.calls + r.calls,
                        n |-> stdio.n + Len(r.out),
                        last |-> IF r.out = <<>> THEN stdio.last ELSE r.out[1],
                        stopped |-> FALSE]
    /\ freeConn' = PoolAfterExec
    /\ UNCHANGED <<call, ret, sessions, sess, post>>

\* handleStdioMCP, for a line of more than bufio.MaxScanTokenSize (64 KB)
\* bytes, whatever it holds: the scanner made by bufio.NewScanner keeps its
\* default buffer, scanner.Scan() returns false with bufio.ErrTooLong, the
\* loop ends and the error is logged.
StdioTooLong(line) ==
    /\ ~stdio.stopped
    /\ stdio' = [stdio EXCEPT !.stopped = TRUE]
    /\ UNCHANGED <<storeVars, sessions, sess, post>>

\* handleSSEConnection up to the registration of its session.
SSEConnect(c, sessionID) ==
    /\ sess[c].pc = "unborn"
    /\ sess' = [sess EXCEPT ![c] = [Unborn EXCEPT !.pc = "registered", !.sessionID = sessionID]]
    /\ sessions' = [sessions EXCEPT ![sessionID] = c]
    /\ UNCHANGED <<storeVars, stdio, post>>

\* sendSSEEvent's write to the connection: a failed write emits nothing, and
\* its error is dropped by every caller.
Written(s, events) == IF s.broken THEN <<>> ELSE events

\* An event of the stream: its type and its data.
Event(eventType, data) == <<eventType, data>>

\* An endpoint event written where the session event belongs.
SSEHelloEndpointFirst(c) ==
    /\ sess[c].pc = "registered"
    /\ sess' = [sess EXCEPT ![c].pc = "hello",
                            ![c].hello = @ \o Written(sess[c], <<Event("endpoint", "/messages")>>)]
    /\ UNCHANGED <<storeVars, stdio, sessions, post>>

\* The session event.
SSEHello(c) ==
    /\ sess[c].pc = "registered"
    /\ sess' = [sess EXCEPT ![c].pc = "hello",
                            ![c].hello = @ \o Written(sess[c], <<Event("session", sess[c].sessionID)>>)]
    /\ UNCHANGED <<storeVars, stdio, sessions, post>>

\* The endpoint event.
SSEEndpoint(c) ==
    /\ sess[c].pc = "hello"
    /\ sess' = [sess EXCEPT ![c].pc = "loop",
                            ![c].hello = @ \o Written(sess[c], <<Event("endpoint", "/messages")>>)]
    /\ UNCHANGED <<storeVars, stdio, sessions, post>>

\* The session event and the endpoint event, one after the other.
SSEHelloEndpoint(c) ==
    /\ sess[c].pc = "registered"
    /\ sess' = [sess EXCEPT ![c].pc = "loop",
                            ![c].hello = @ \o Written(sess[c], <<Event("session", sess[c].sessionID),
                                                                 Event("endpoint", "/messages")>>)]
    /\ UNCHANGED <<storeVars, stdio, sessions, post>>

\* The client's end of the connection goes away: writes fail from now on.
SSEBreak(c) ==
    /\ sess[c].pc \in {"registered", "hello", "loop"}
    /\ ~sess[c].broken
    /\ sess' = [sess EXCEPT ![c].broken = TRUE]
    /\ UNCHANGED <<storeVars, stdio, sessions, post>>

\* net/http cancels the request's context (the connection is closed, or the
\* server shuts down).
SSECancel(c) ==
    /\ sess[c].pc \in {"registered", "hello", "loop"}
    /\ ~sess[c].cancelled
    /\ sess' = [sess EXCEPT ![c].cancelled = TRUE]
    /\ UNCHANGED <<storeVars, stdio, sessions, post>>

\* A loop that receives the request queued last.
SSERecvNewest(c, failAt) ==
    /\ sess[c].pc = "loop"
    /\ sess[c].messageChan # <<>>
    /\ Dispatched < MaxDispatch
    /\ LET s == sess[c]
           k == Len(s.messageChan)
           r == ProcessMessage(db, Conn, s.messageChan[k], failAt)
           rest == SubSeq(s.messageChan, 1, k - 1)
       IN  /\ db' = r.db
           /\ sess' = [sess EXCEPT
                  ![c].calls = @ + r.calls,
                  ![c].messageChan = IF s.sendq = <<>> THEN rest
                                     ELSE Append(rest, post[Head(s.sendq)].req),
                  ![c].sendq = IF s.sendq = <<>> THEN <<>> ELSE Tail(s.sendq),
                  ![c].messages = @ + Len(Written(s, r.out)),
                  ![c].last = IF Written(s, r.out) = <<>> THEN @ ELSE r.out[1]]
           /\ post' = IF s.sendq = <<>> THEN post
                      ELSE [post EXCEPT ![Head(s.sendq)] = Answer(post[Head(s.sendq)], 202)]
    /\ freeConn' = PoolAfterExec
    /\ UNCHANGED <<call, ret, stdio, sessions>>

\* The select's message case: the head of messageChan is received and
\* handled; the first handler blocked on the full channel, if any, has its
\* request moved into the buffer and answers 202.
SSERecv(c, failAt) ==
    /\ sess[c].pc = "loop"
    /\ sess[c].messageChan # <<>>
    /\ Dispatched < MaxDispatch
    /\ LET s == sess[c]
           r == ProcessMessage(db, Conn, Head(s.messageChan), failAt)
           rest == Tail(s.messageChan)
       IN  /\ db' = r.db
           /\ sess' = [sess EXCEPT
                  ![c].calls = @ + r.calls,
                  ![c].messageChan = IF s.sendq = <<>> THEN rest
                                     ELSE Append(rest, post[Head(s.sendq)].req),
                  ![c].sendq = IF s.sendq = <<>> THEN <<>> ELSE Tail(s.sendq),
                  ![c].messages = @ + Len(Written(s, r.out)),
                  ![c].last = IF Written(s, r.out) = <<>> THEN @ ELSE r.out[1]]
           /\ post' = IF s.sendq = <<>> THEN post
                      ELSE [post EXCEPT ![Head(s.sendq)] = Answer(post[Head(s.sendq)], 202)]
    /\ freeConn' = PoolAfterExec
    /\ UNCHANGED <<call, ret, stdio, sessions>>

\* The select's 30 s case: a ping event.
SSEPing(c) ==
    /\ sess[c].pc = "loop"
    /\ sess[c].pings < MaxPings
    /\ sess' = [sess EXCEPT ![c].pings = @ + Len(Written(sess[c], <<"ping">>))]
    /\ UNCHANGED <<storeVars, stdio, sessions, post>>

\* The select's r.Context().Done() case, and the first half of the deferred
\* clean-up: the entry of the session's id is deleted from the registry.
\* (Nothing ever sends on session.done, so that case is never taken.)
SSEDisconnect(c) ==
    /\ sess[c].pc = "loop"
    /\ sess[c].cancelled
    /\ sess' = [sess EXCEPT ![c].pc = "deregistered"]
    /\ sessions' = [sessions EXCEPT ![sess[c].sessionID] = NoSession]
    /\ UNCHANGED <<storeVars, stdio, post>>

\* The second half of the clean-up: close(session.messageChan). The handlers
\* blocked sending on the channel panic.
SSEClose(c) ==
    /\ sess[c].pc = "deregistered"
    /\ sess' = [sess EXCEPT ![c].pc = "closed", ![c].sendq = <<>>]
    /\ post' = [h \in Handlers |->
                   IF h \in Range(sess[c].sendq) THEN [post[h] EXCEPT !.pc = "panicked"]
                   ELSE post[h]]
    /\ UNCHANGED <<storeVars, stdio, sessions>>

\* A lookup whose miss is answered as an accepted message.
PostRequestAcceptsUnknown(h, sessionID, body, q) ==
    /\ post[h].pc = "idle"
    /\ \A c \in SSEConns : Len(sess[c].messageChan) < q
    /\ post' = [post EXCEPT ![h] =
          [ IF sessionID = "" THEN Answered(400)
            ELSE IF body.kind # "json" THEN Answered(400)
            ELSE IF Decode(body).jsonrpc # "2.0" THEN Answered(400)
            ELSE IF sessions[sessionID] = NoSession THEN Answered(202)
            ELSE [Waiting EXCEPT !.pc = "send", !.session = sessions[sessionID],
                                 !.req = Decode(body)]
          EXCEPT !.sessionID = sessionID ]]
    /\ UNCHANGED <<storeVars, stdio, sessions, sess>>

\* handleJSONRPCMessage up to the lookup of the session under the read lock;
\* q bounds the requests queued in a session.
PostRequest(h, sessionID, body, q) ==
    /\ post[h].pc = "idle"
    /\ \A c \in SSEConns : Len(sess[c].messageChan) < q
    /\ post' = [post EXCEPT ![h] =
          [ IF sessionID = "" THEN Answered(400)
            ELSE IF body.kind # "json" THEN Answered(400)
            ELSE IF Decode(body).jsonrpc # "2.0" THEN Answered(400)
            ELSE IF sessions[sessionID] = NoSession THEN Answered(404)
            ELSE [Waiting EXCEPT !.pc = "send", !.session = sessions[sessionID],
                                 !.req = Decode(body)]
          EXCEPT !.sessionID = sessionID ]]
    /\ UNCHANGED <<storeVars, stdio, sessions, sess>>

\* The select of handleJSONRPCMessage, entered: the send proceeds if the
\* buffer has room, panics if the channel is closed, and blocks otherwise.
PostSend(h) ==
    /\ post[h].pc = "send"
    /\ LET c == post[h].session
       IN  IF sess[c].pc = "closed"
           THEN /\ post' = [post EXCEPT ![h].pc = "panicked"]
                /\ UNCHANGED sess
           ELSE IF Len(sess[c].messageChan) < QueueCap
           THEN /\ sess' = [sess EXCEPT ![c].messageChan = Append(@, post[h].req)]
                /\ post' = [post EXCEPT ![h] = Answer(post[h], 202)]
           ELSE /\ sess' = [sess EXCEPT ![c].sendq = Append(@, h)]
                /\ post' = [post EXCEPT ![h].pc = "blocked"]
    /\ UNCHANGED <<storeVars, stdio, sessions>>

\* A time-out that leaves the request in the queue all the same.
PostTimeoutEnqueues(h) ==
    /\ post[h].pc = "blocked"
    /\ sess' = [sess EXCEPT ![post[h].session].sendq = SelectSeq(@, LAMBDA x : x # h),
                            ![post[h].session].messageChan = Append(@, post[h].req)]
    /\ post' = [post EXCEPT ![h] = Answer(post[h], 503)]
    /\ UNCHANGED <<storeVars, stdio, sessions>>

\* The select's 5 s case.
PostTimeout(h) ==
    /\ post[h].pc = "blocked"
    /\ sess' = [sess EXCEPT ![post[h].session].sendq = SelectSeq(@, LAMBDA x : x # h)]
    /\ post' = [post EXCEPT ![h] = Answer(post[h], 503)]
    /\ UNCHANGED <<storeVars, stdio, sessions>>

\* The handler has returned, or net/http has recovered its panic and dropped
\* the connection; its goroutine serves the next request.
PostReturn(h) ==
    /\ post[h].pc \in {"done", "panicked"}
    /\ post' = [post EXCEPT ![h] = Waiting]
    /\ UNCHANGED <<storeVars, stdio, sessions, sess>>

-----------------------------------------------------------------------------
(* sessionManager.mu, a sync.RWMutex: the goroutines above take the steps   *)
(* below one lock operation at a time. Field lock of a connection says its  *)
(* goroutine holds mu for writing, field rlock of a handler that it holds   *)
(* mu for reading.                                                          *)

Writers == {c \in SSEConns : sess[c].lock}
Readers == {h \in Handlers : post[h].rlock}

\* sessionManager.mu.Lock() of handleSSEConnection returns: nobody holds mu.
SSELock(c, sessionID) ==
    /\ sess[c].pc = "unborn"
    /\ Writers = {} /\ Readers = {}
    /\ sess' = [sess EXCEPT ![c] = [Unborn EXCEPT !.pc = "locked", !.sessionID = sessionID,
                                                  !.lock = TRUE]]
    /\ UNCHANGED <<storeVars, stdio, sessions, post>>

\* sessionManager.sessions[sessionID] = session, and mu.Unlock().
SSERegister(c) ==
    /\ sess[c].pc = "locked"
    /\ sessions' = [sessions EXCEPT ![sess[c].sessionID] = c]
    /\ sess' = [sess EXCEPT ![c].pc = "registered", ![c].lock = FALSE]
    /\ UNCHANGED <<storeVars, stdio, post>>

\* The loop has returned on r.Context().Done() and mu.Lock() of the deferred
\* clean-up returns.
SSEDeferLock(c) ==
    /\ sess[c].pc = "loop"
    /\ sess[c].cancelled
    /\ Writers = {} /\ Readers = {}
    /\ sess' = [sess EXCEPT ![c].pc = "deleting", ![c].lock = TRUE]
    /\ UNCHANGED <<storeVars, stdio, sessions, post>>

\* delete(sessionManager.sessions, sessionID), and mu.Unlock().
SSEDelete(c) ==
    /\ sess[c].pc = "deleting"
    /\ sessions' = [sessions EXCEPT ![sess[c].sessionID] = NoSession]
    /\ sess' = [sess EXCEPT ![c].pc = "deregistered", ![c].lock = FALSE]
    /\ UNCHANGED <<storeVars, stdio, post>>

\* handleJSONRPCMessage up to mu.RLock(), which returns when nobody holds mu
\* for writing; q bounds the requests queued in the session posted to.
PostRLock(h, sessionID, body, q) ==
    /\ post[h].pc = "idle"
    /\ \A c \in SSEConns : sess[c].sessionID = sessionID => Len(sess[c].messageChan) < q
    /\ IF sessionID = "" \/ body.kind # "json" \/ Decode(body).jsonrpc # "2.0"
       THEN post' = [post EXCEPT ![h] = [Answered(400) EXCEPT !.sessionID = sessionID]]
       ELSE /\ Writers = {}
            /\ post' = [post EXCEPT ![h] =
                            [Waiting EXCEPT !.pc = "rlocked", !.sessionID = sessionID,
                                            !.req = Decode(body), !.rlock = TRUE]]
    /\ UNCHANGED <<storeVars, stdio, sessions, sess>>

\* A handler that keeps the read lock until it has answered.
PostLookupHoldsLock(h) ==
    /\ post[h].pc = "rlocked"
    /\ post' = [post EXCEPT ![h] =
          IF sessions[post[h].sessionID] = NoSession THEN Answer(post[h], 404)
          ELSE [post[h] EXCEPT !.pc = "send", !.session = sessions[post[h].sessionID]]]
    /\ UNCHANGED <<storeVars, stdio, sessions, sess>>

\* The lookup in sessionManager.sessions, and mu.RUnlock().
PostLookup(h) ==
    /\ post[h].pc = "rlocked"
    /\ post' = [post EXCEPT ![h] =
          IF sessions[post[h].sessionID] = NoSession THEN Answer(post[h], 404)
          ELSE [post[h] EXCEPT !.pc = "send", !.session = sessions[post[h].sessionID],
                               !.rlock = FALSE]]
    /\ UNCHANGED <<storeVars, stdio, sessions, sess>>

-----------------------------------------------------------------------------
(* The HTTP front of the MCP endpoints: header values are sequences of      *)
(* characters.                                                              *)

HttpLocalhost == <<"h","t","t","p",":","/","/","l","o","c","a","l","h","o","s","t">>
Http127 == <<"h","t","t","p",":","/","/","1","2","7",".","0",".","0",".","1">>

\* r.Header.Get("Origin") of a request without the header.
NoOrigin == <<>>

\* The Origin headers sent: none, the loopback origins with and without a
\* port and over https, a foreign origin, and foreign hosts whose names begin
\* with a loopback name.
Origins ==
    {NoOrigin, HttpLocalhost, HttpLocalhost \o <<":","8","0","8","0">>, Http127,
     <<"h","t","t","p","s",":","/","/","l","o","c","a","l","h","o","s","t">>,
     <<"h","t","t","p",":","/","/","e","v","i","l",".","c","o","m">>,
     HttpLocalhost \o <<".","e","v","i","l",".","c","o","m">>,
     Http127 \o <<".","e","v","i","l",".","c","o","m">>}

\* strings.HasPrefix
HasPrefix(s, prefix) == Len(s) >= Len(prefix) /\ SubSeq(s, 1, Len(prefix)) = prefix

\* The origin test of both handlers.
InvalidOrigin(origin) ==
    origin # NoOrigin /\ ~HasPrefix(origin, HttpLocalhost) /\ ~HasPrefix(origin, Http127)

\* An http.Request: its Origin header, r.URL.Path, r.Method, its X-Session-ID
\* header and its body.
HTTPRequest(origin, path, method, sessionID, body) ==
    [origin |-> origin, path |-> path, method |-> method, sessionID |-> sessionID, body |-> body]

\* The paths main registers for the two MCP handlers.
Paths == {"/sse", "/messages", "/mcp", "/mcp/legacy"}

\* The bodies sent: no JSON, an old version, a request that leaves the store
\* alone and one that writes to it.
HTTPBodies == PostBodies \cup {Line("json", "2.0", "1", "tools/call", CreateAlice)}

\* A GET and a preflight request have neither the header nor a body.
HTTPRequests ==
    {HTTPRequest(origin, path, method, "", GarbageLine) :
        origin \in Origins, path \in Paths, method \in {"GET", "OPTIONS"}}
    \cup {HTTPRequest(origin, path, "POST", sessionID, body) :
        origin \in Origins, path \in Paths, sessionID \in {"", "s1"}, body \in HTTPBodies}

\* The goroutine g, serving a request, answers it with the status alone
\* (http.Error, or WriteHeader) and returns.
Refuse(g, status) ==
    /\ IF g \in SSEConns
       THEN /\ sess' = [sess EXCEPT ![g] = [Unborn EXCEPT !.pc = "refused", !.status = status]]
            /\ UNCHANGED post
       ELSE /\ post' = [post EXCEPT ![g] = Answered(status)]
            /\ UNCHANGED sess
    /\ UNCHANGED <<storeVars, stdio, sessions>>

\* NewMCPHandler: the origin test, then the routes by path and method; now is
\* the clock value a new session is named after.
NewMCPHandler(g, r, now) ==
    IF InvalidOrigin(r.origin) THEN Refuse(g, 403)
    ELSE IF r.path \in {"/sse", "/mcp"} /\ r.method = "GET" THEN SSEConnect(g, now)
    ELSE IF r.path \in {"/messages", "/mcp"} /\ r.method = "POST"
         THEN PostRequest(g, r.sessionID, r.body, MaxQueued)
    ELSE Refuse(g, 405)

\* NewHandler, mounted on /mcp/legacy: the origin test, POST only, the body
\* decoded and its version tested, then the dispatcher, whose response is the
\* body of the answer.
NewHandler(g, r, failAt) ==
    IF InvalidOrigin(r.origin) THEN Refuse(g, 403)
    ELSE IF r.method # "POST" THEN Refuse(g, 405)
    ELSE IF r.body.kind # "json" THEN Refuse(g, 400)
    ELSE IF Decode(r.body).jsonrpc # "2.0" THEN Refuse(g, 400)
    ELSE LET x == HandleJSONRPCMethod(db, Conn, Decode(r.body), failAt)
         IN  /\ db' = x.db
             /\ freeConn' = PoolAfterExec
             /\ post' = [post EXCEPT ![g] = [Answered(200) EXCEPT !.req = Decode(r.body),
                                                                  !.resp = x.resp]]
             /\ UNCHANGED <<call, ret, stdio, sessions, sess>>

\* corsMiddleware around http.DefaultServeMux: a preflight request is answered
\* 204 by the middleware, any other goes to the handler of its path. A GET is
\* served by the goroutine of an SSE connection, any other request by the
\* goroutine of a POST handler.
corsMiddleware(g, r, now) ==
    /\ IF g \in SSEConns THEN r.method = "GET" /\ sess[g].pc = "unborn"
                         ELSE r.method # "GET" /\ post[g].pc = "idle"
    /\ IF r.method = "OPTIONS" THEN Refuse(g, 204)
       ELSE IF r.path = "/mcp/legacy"
            THEN \E failAt \in Failures(r.body) : NewHandler(g, r, failAt)
       ELSE NewMCPHandler(g, r, now)

\* The requests of every origin, path and method, and what the goroutines do
\* once a request has passed the front.
NextHTTP ==
    /\ \/ \E g \in {"sse1", "h1"}, r \in HTTPRequests : corsMiddleware(g, r, "s1")
       \/ SSEHello("sse1")
       \/ SSEEndpoint("sse1")
       \/ SSERecv("sse1", NoFailure)
       \/ SSECancel("sse1")
       \/ SSEDisconnect("sse1")
       \/ SSEClose("sse1")
       \/ PostSend("h1")
       \/ PostReturn("h1")
    /\ UNCHANGED hist

SpecHTTP == Init /\ [][NextHTTP]_vars

\* The stdio transport alone, offered every message.
StdioLines == Lines(RpcBatch)

NextStdio == (\E line \in StdioLines : \E f \in Failures(line) : Stdio(line, f)) /\ UNCHANGED hist

SpecStdio == Init /\ [][NextStdio]_vars

\* The stdio loop reading lines within and beyond the scanner's limit.
ScanLines == RpcLines \cup {BlankLine}

NextScan ==
    /\ \/ \E line \in ScanLines : \E f \in Failures(line) : Stdio(line, f)
       \/ \E line \in ScanLines : StdioTooLong(line)
    /\ UNCHANGED hist

SpecScan == Init /\ [][NextScan]_vars

\* The stdio loop offered a tools/call for every name the switch of
\* handleToolCall has a case for, and for one it has none for.
NameLines ==
    {Line("json", "2.0", id, "tools/call", ToolCallParams(t, NoArguments)) :
        id \in WireIds, t \in ToolNames \cup LegacyToolNames \cup {"no_such_tool"}}
    \cup {Line("json", "2.0", id, "tools/call",
                ToolCallParams("create_entity", StringArguments([name |-> n, entity_type |-> t]))) :
             id \in WireIds, n \in Names, t \in Types}
    \cup {Line("json", "2.0", id, "tools/call", CreateAlice) : id \in WireIds}

NextNames == (\E line \in NameLines : \E f \in Failures(line) : Stdio(line, f)) /\ UNCHANGED hist

SpecNames == Init /\ [][NextNames]_vars

\* The dispatcher called by the stdio loop for requests of every shape.
NextRpc == (\E line \in RpcLines : \E f \in Failures(line) : Stdio(line, f)) /\ UNCHANGED hist

SpecRpc == Init /\ [][NextRpc]_vars

\* One SSE session and its POST handler beside the stdio loop.
NextSSE ==
    /\ \/ \E line \in FewLines : Stdio(line, NoFailure)
       \/ SSEConnect("sse1", "s1")
       \/ SSEHello("sse1")
       \/ SSEEndpoint("sse1")
       \/ SSERecv("sse1", NoFailure)
       \/ SSEPing("sse1")
       \/ SSECancel("sse1")
       \/ SSEDisconnect("sse1")
       \/ SSEClose("sse1")
       \/ \E sessionID \in {"", "s1"}, body \in FewLines : PostRequest("h1", sessionID, body, MaxQueued)
       \/ PostSend("h1")
       \/ PostReturn("h1")
    /\ UNCHANGED hist

SpecSSE == Init /\ [][NextSSE]_vars

\* One SSE session and two POST handlers filling its queue.
NextPost ==
    /\ \/ SSEConnect("sse1", "s1")
       \/ SSEHello("sse1")
       \/ SSEEndpoint("sse1")
       \/ SSERecv("sse1", NoFailure)
       \/ SSEPing("sse1")
       \/ SSECancel("sse1")
       \/ SSEDisconnect("sse1")
       \/ SSEClose("sse1")
       \/ \E h \in Handlers :
             \/ \E sessionID \in {""} \cup SessionIds, body \in PostBodies :
                    PostRequest(h, sessionID, body, QueueCap + 1)
             \/ PostSend(h)
             \/ PostTimeout(h)
             \/ PostReturn(h)
    /\ UNCHANGED hist

SpecPost == Init /\ [][NextPost]_vars

\* The bodies posted to the sessions of two connections: a request the
\* dispatcher answers with a result, and one it answers with an error.
LifeBodies ==
    {Line("json", "2.0", "1", m, NoParams) : m \in {"initialize", "no/such/method"}}

\* Two SSE connections from their GET to the end of their clean-up, and a POST
\* handler. A connection's goroutine keeps running: its two first events are
\* written, the select of its loop chooses among its ready cases at random, and
\* its deferred clean-up runs once the loop has returned.
Connection(c) ==
    \/ \E sessionID \in SessionIds : SSEConnect(c, sessionID)
    \/ SSEHello(c)
    \/ SSEEndpoint(c)
    \/ SSERecv(c, NoFailure)
    \/ SSEPing(c)
    \/ SSEBreak(c)
    \/ SSECancel(c)
    \/ SSEDisconnect(c)
    \/ SSEClose(c)

Posting(h) ==
    \/ \E sessionID \in SessionIds, body \in LifeBodies :
          PostRequest(h, sessionID, body, MaxQueued)
    \/ PostSend(h)
    \/ PostReturn(h)

NextLife == ((\E c \in SSEConns : Connection(c)) \/ Posting("h1")) /\ UNCHANGED hist

SpecLife ==
    /\ Init /\ [][NextLife]_vars
    /\ \A c \in SSEConns :
          /\ WF_vars(SSEHello(c) /\ UNCHANGED hist)
          /\ WF_vars(SSEEndpoint(c) /\ UNCHANGED hist)
          /\ WF_vars(SSEDisconnect(c) /\ UNCHANGED hist)
          /\ WF_vars(SSEClose(c) /\ UNCHANGED hist)

\* Two SSE connections and two POST handlers, lock operation by lock
\* operation: h1 posts to the session of sse1 until its queue is full, h2 to
\* the session of sse2.
LockBody == Line("json", "2.0", "1", "initialize", NoParams)

NextLock ==
    /\ \/ SSELock("sse1", "s1")
       \/ SSELock("sse2", "s2")
       \/ \E c \in SSEConns :
             \/ SSERegister(c)
             \/ SSEHelloEndpoint(c)
             \/ SSERecv(c, NoFailure)
             \/ SSECancel(c)
             \/ SSEDeferLock(c)
             \/ SSEDelete(c)
             \/ SSEClose(c)
       \/ PostRLock("h1", "s1", LockBody, QueueCap + 1)
       \/ PostRLock("h2", "s2", LockBody, MaxQueued)
       \/ \E h \in Handlers :
             \/ PostLookup(h)
             \/ PostSend(h)
             \/ PostTimeout(h)
             \/ PostReturn(h)
    /\ UNCHANGED hist

SpecLock == Init /\ [][NextLock]_vars

\* Two SSE connections with a session each and a POST handler: requests with
\* and without an id, answered by a result or by an error, wait in the
\* queues and are dispatched.
OrderBodies ==
    {Line("json", "2.0", "1", "initialize", NoParams),
     Line("json", "2.0", "1", "no/such/method", NoParams),
     Line("json", "2.0", "absent", "initialize", NoParams)}

NextOrder ==
    /\ \/ SSEConnect("sse1", "s1")
       \/ SSEConnect("sse2", "s2")
       \/ \E c \in SSEConns :
             \/ SSEHelloEndpoint(c)
             \/ SSERecv(c, NoFailure)
       \/ SSEBreak("sse2")
       \/ \E sessionID \in SessionIds, body \in OrderBodies :
             PostRequest("h1", sessionID, body, MaxQueued + 1)
       \/ PostSend("h1")
       \/ PostReturn("h1")
    /\ UNCHANGED hist

SpecOrder == Init /\ [][NextOrder]_vars

\* The requests dispatched on both transports: with and without an id,
\* answered by a result, by an error result or by a protocol error.
DispatchLines ==
    {Line("json", "2.0", id, "initialize", NoParams) : id \in {"1", "absent"}}
    \cup {Line("json", "2.0", "1", m, NoParams) : m \in {"no/such/method", "tools/call"}}
    \cup {Line("json", "2.0", "1", "tools/call", p) :
             p \in {ToolCallParams("no_such_tool", NoArguments),
                    ToolCallParams("read_graph", NoArguments),
                    ToolCallParams("create_relation",
                                   StringArguments([from_entity |-> "Alice", to_entity |-> "Alice",
                                                    relation_type |-> "works_at"])),
                    CreateAlice}}

\* The stdio loop and an SSE session dispatching requests while an HTTP
\* handler of the REST API calls DeleteEntities on the same *sql.DB.
NextDispatch ==
    /\ \/ \E line \in DispatchLines : Stdio(line, NoFailure)
       \/ SSEConnect("sse1", "s1")
       \/ SSEHelloEndpoint("sse1")
       \/ SSERecv("sse1", NoFailure)
       \/ \E body \in DispatchLines : PostRequest("h1", "s1", body, MaxQueued + 1)
       \/ PostSend("h1")
       \/ PostReturn("h1")
       \/ DeleteEntities("g1", <<"Company">>, FALSE) /\ UNCHANGED mcpVars
       \/ DeleteEntitiesRun("g1", NoFailure) /\ UNCHANGED mcpVars
    /\ UNCHANGED hist

SpecDispatch == Init /\ [][NextDispatch]_vars

\* One SSE connection, the events written to it and the POSTs to its session.
NextEvents == (Connection("sse1") \/ Posting("h1")) /\ UNCHANGED hist

SpecEvents == Init /\ [][NextEvents]_vars

-----------------------------------------------------------------------------
(* The store called directly. *)

\* The calls goroutine p may enter or continue, with batches of at most b
\* items, while fewer than m relations and observations have been inserted.
Step(p, b, m) ==
    \/ \E n \in Names, t \in Types : CreateEntity(p, n, t)
    \/ \E f \in Names, t \in Names, ty \in RelTypes :
           db.relSeq + db.obsSeq < m /\ CreateRelation(p, f, t, ty)
    \/ \E n \in Names, c \in Contents :
           db.relSeq + db.obsSeq < m /\ CreateObservation(p, n, c)
    \/ \E obs \in {s \in ObservationLists : Len(s) <= b} : AddObservations(p, obs)
    \/ AddObservationsExists(p)
    \/ db.relSeq + db.obsSeq < m /\ AddObservationsInsert(p)
    \/ \E ns \in {s \in NameLists : Len(s) <= b}, beginFails \in BOOLEAN :
           DeleteEntities(p, ns, beginFails)
    \/ \E f \in FailPoints : DeleteEntitiesRun(p, f)

\* One goroutine calling the store: the calls run one after the other.
Next == Step("g1", MaxBatch, MaxId) /\ UNCHANGED <<mcpVars, hist>>

Spec == Init /\ [][Next]_vars

\* A goroutine reading the graph while another writes to the store.
NextGraph ==
    /\ \/ ReadGraphEntities("g1")
       \/ ReadGraphRelations("g1")
       \/ ReadGraphObservations("g1")
       \/ \E n \in Names, t \in Types : CreateEntity("g2", n, t)
       \/ \E f \in Names, t \in Names, ty \in RelTypes :
              db.relSeq + db.obsSeq < MaxId /\ CreateRelation("g2", f, t, ty)
       \/ \E n \in Names, c \in Contents :
              db.relSeq + db.obsSeq < MaxId /\ CreateObservation("g2", n, c)
    /\ UNCHANGED <<mcpVars, hist>>

SpecGraph == Init /\ [][NextGraph]_vars

\* One goroutine creating entities and observations and deleting observations,
\* with statements that may fail.
NextObs ==
    /\ \/ \E n \in Names : CreateEntity("g1", n, "person")
       \/ \E n \in Names, c \in Contents :
              db.relSeq + db.obsSeq < MaxId /\ CreateObservation("g1", n, c)
       \/ \E deletions \in DeletionLists, failAt \in 0..MaxBatch :
              CallDeleteObservations("g1", deletions, failAt)
    /\ UNCHANGED <<mcpVars, hist>>

SpecObs == Init /\ [][NextObs]_vars

\* One goroutine writing to the store and deleting relations from it, with
\* statements that may fail.
NextDelete ==
    /\ \/ \E n \in Names, t \in Types : CreateEntity("g1", n, t)
       \/ \E f \in Names, t \in Names, ty \in RelTypes :
              db.relSeq + db.obsSeq < MaxId /\ CreateRelation("g1", f, t, ty)
       \/ \E n \in Names, c \in Contents :
              db.relSeq + db.obsSeq < MaxId /\ CreateObservation("g1", n, c)
       \/ \E relations \in RelationLists, failAt \in 0..MaxBatch :
              CallDeleteRelations("g1", relations, failAt)
    /\ UNCHANGED <<mcpVars, hist>>

SpecDelete == Init /\ [][NextDelete]_vars

\* One goroutine writing to the store and searching it.
NextSearch ==
    /\ \/ Step("g1", MaxBatch, MaxId)
       \/ \E query \in SearchQueries : CallSearchNodes("g1", query)
    /\ UNCHANGED <<mcpVars, hist>>

SpecSearch == Init /\ [][NextSearch]_vars

\* A goroutine creating and deleting entities while another creates
\* relations and opens nodes.
NextOpen ==
    /\ \/ \E n \in Names, t \in Types : CreateEntity("g1", n, t)
       \/ \E ns \in NameLists : DeleteEntities("g1", ns, FALSE)
       \/ DeleteEntitiesRun("g1", NoFailure)
       \/ \E f \in Names, t \in Names, ty \in RelTypes :
              db.relSeq + db.obsSeq < MaxId /\ CreateRelation("g2", f, t, ty)
       \/ \E nodeNames \in NameLists : CallOpenNodes("g2", nodeNames)
    /\ UNCHANGED <<mcpVars, hist>>

SpecOpen == Init /\ [][NextOpen]_vars

\* A tools/call request for one of the tools whose argument is an array of
\* objects, answered by handleToolCall; what the client reads of the answer
\* (the error flag and the number in the text) is kept in ret.
ArrayKey ==
    [t \in {"create_entities", "create_relations", "add_observations",
            "delete_observations", "delete_relations"} |->
        CASE t = "create_entities" -> "entities"
          [] t = "add_observations" -> "observations"
          [] t = "delete_observations" -> "deletions"
          [] OTHER -> "relations"]

ToolRequest(name, items) ==
    JSONRPCRequest("2.0", "1", "tools/call",
                   ToolCallParams(name, ArrayArguments(ArrayKey[name], items)))

CallToolsCall(p, name, items) ==
    /\ call[p].pc = "idle"
    /\ LET r == handleToolCall(db, Conn, ToolRequest(name, items), NoFailure)
       IN  /\ r.db.relSeq + r.db.obsSeq <= MaxId
           /\ db' = r.db
           /\ ret' = Returned(name, items, 0, <<>>,
                              r.resp.kind = "error" \/ r.resp.isError, r.resp.text.n)
    /\ freeConn' = PoolAfterExec
    /\ UNCHANGED call

ToolEntityItems ==
    {EntityItem("Alice", "person", <<>>), EntityItem("Alice", "organization", <<"c1">>),
     EntityItem(Missing, "person", <<>>), NotAnObject}
ToolRelationItems ==
    {RelationItem("Alice", "Alice", "works_at"), RelationItem("Alice", "Alice", Missing),
     NotAnObject}
ToolObservationItems ==
    {ObservationItem("Alice", "c1"), ObservationItem("Alice", Missing), NotAnObject}
ToolDeletionItems ==
    {DeletionItem("Alice", TRUE, <<"c1", Missing>>), DeletionItem("Alice", FALSE, <<>>),
     NotAnObject}

NextTool ==
    /\ \/ \E items \in SeqsUpTo(ToolEntityItems, MaxBatch) :
              CallToolsCall("g1", "create_entities", items)
       \/ \E items \in SeqsUpTo(ToolRelationItems, MaxBatch) :
              CallToolsCall("g1", "create_relations", items)
       \/ \E items \in SeqsUpTo(ToolObservationItems, MaxBatch) :
              CallToolsCall("g1", "add_observations", items)
       \/ \E items \in SeqsUpTo(ToolDeletionItems, MaxBatch) :
              CallToolsCall("g1", "delete_observations", items)
       \/ \E items \in SeqsUpTo(ToolRelationItems, MaxBatch) :
              CallToolsCall("g1", "delete_relations", items)
    /\ UNCHANGED <<mcpVars, hist>>

SpecTool == Init /\ [][NextTool]_vars

\* An entity of the Python-compatible API: its observations are embedded.
PythonEntity(name, entityType, observations) ==
    [name |-> name, entityType |-> entityType, observations |-> observations]

\* The first loop of POST /create_entities: the names of the batch that the
\* store holds already, in the order of the batch.
RECURSIVE ConflictingEntityNames(_, _)
ConflictingEntityNames(d, entities) ==
    IF entities = <<>> THEN <<>>
    ELSE (IF EntityExists(d, Head(entities).name) THEN <<Head(entities).name>> ELSE <<>>)
         \o ConflictingEntityNames(d, Tail(entities))

\* db.CreateObservation for each embedded observation, up to the first error.
RECURSIVE CreateEmbeddedObservations(_, _, _, _)
CreateEmbeddedObservations(d, conn, name, observations) ==
    IF observations = <<>> THEN [db |-> d, err |-> FALSE]
    ELSE LET r == InsertObservation(d, conn, name, Head(observations))
         IN  IF r.err THEN [db |-> d, err |-> TRUE]
             ELSE CreateEmbeddedObservations(r.db, conn, name, Tail(observations))

\* The second loop: db.CreateEntity, then the observations, for each entity.
RECURSIVE CreateEntitiesWithObservations(_, _, _, _)
CreateEntitiesWithObservations(d, conn, entities, createdEntities) ==
    IF entities = <<>> THEN [db |-> d, created |-> createdEntities, err |-> FALSE]
    ELSE LET entity == Head(entities)
             r == CreateEmbeddedObservations(InsertEntity(d, entity.name, entity.entityType),
                                             conn, entity.name, entity.observations)
         IN  IF r.err THEN [db |-> r.db, created |-> createdEntities, err |-> TRUE]
             ELSE CreateEntitiesWithObservations(r.db, conn, Tail(entities),
                                                 Append(createdEntities, entity.name))

\* POST /create_entities of NewPythonCompatHandler: ret keeps the status of
\* the answer and the names its body lists.
PythonCreateEntities(p, entities) ==
    /\ call[p].pc = "idle"
    /\ LET conflictingEntityNames == ConflictingEntityNames(db, entities)
           r == CreateEntitiesWithObservations(db, Conn, entities, <<>>)
       IN  IF conflictingEntityNames # <<>>
           THEN /\ db' = db
                /\ ret' = Returned("POST /create_entities", entities, 0,
                                   conflictingEntityNames, TRUE, 409)
           ELSE /\ r.db.relSeq + r.db.obsSeq <= MaxId
                /\ db' = r.db
                /\ ret' = Returned("POST /create_entities", entities, 0, r.created, r.err,
                                   IF r.err THEN 500 ELSE 201)
    /\ freeConn' = PoolAfterExec
    /\ UNCHANGED call

PythonEntities ==
    {PythonEntity("Alice", "person", <<>>), PythonEntity("Alice", "organization", <<"c1">>),
     PythonEntity("Company", "organization", <<>>),
     PythonEntity("Company", "organization", <<"c1">>)}

NextPython ==
    /\ \/ \E entities \in SeqsUpTo(PythonEntities, MaxBatch) :
              PythonCreateEntities("g1", entities)
       \/ \E ns \in {s \in NameLists : Len(s) = 1} : DeleteEntities("g1", ns, FALSE)
       \/ DeleteEntitiesRun("g1", NoFailure)
    /\ UNCHANGED <<mcpVars, hist>>

SpecPython == Init /\ [][NextPython]_vars

-----------------------------------------------------------------------------
(* The transformations between the store's models and the Python format.    *)

\* A Go slice of strings: nil, or its elements.
Slice(elems) == [nil |-> FALSE, elems |-> elems]
NilSlice == [nil |-> TRUE, elems |-> <<>>]

\* obsMap[name] after the first loop of TransformToPython: each content is
\* appended to the slice of its entity, and a name without any has nil.
RECURSIVE ObsMap(_, _, _)
ObsMap(observations, name, slice) ==
    IF observations = <<>> THEN slice
    ELSE ObsMap(Tail(observations), name,
                IF Head(observations).entityName = name
                THEN Slice(Append(slice.elems, Head(observations).content))
                ELSE slice)

PythonRelation(from, to, relationType) ==
    [from |-> from, to |-> to, relationType |-> relationType]

PythonKnowledgeGraph(entities, relations) == [entities |-> entities, relations |-> relations]

\* A transformation that leaves the observations of an entity nil.
TransformToPythonNilObservations(entities, relations, observations) ==
    PythonKnowledgeGraph(
        [i \in 1..Len(entities) |->
            PythonEntity(entities[i].name, entities[i].type,
                         ObsMap(observations, entities[i].name, NilSlice))],
        [i \in 1..Len(relations) |->
            PythonRelation(relations[i].from, relations[i].to, relations[i].type)])

TransformToPython(entities, relations, observations) ==
    PythonKnowledgeGraph(
        [i \in 1..Len(entities) |->
            LET obs == ObsMap(observations, entities[i].name, NilSlice)
            IN  PythonEntity(entities[i].name, entities[i].type,
                             IF obs.nil THEN Slice(<<>>) ELSE obs)],
        [i \in 1..Len(relations) |->
            PythonRelation(relations[i].from, relations[i].to, relations[i].type)])

\* The observations TransformFromPython extracts, entity by entity; their
\* ids are left zero.
RECURSIVE ExtractObservations(_)
ExtractObservations(pythonEntities) ==
    IF pythonEntities = <<>> THEN <<>>
    ELSE LET pythonEntity == Head(pythonEntities)
         IN  [i \in 1..Len(pythonEntity.observations.elems) |->
                 [id |-> 0, entityName |-> pythonEntity.name,
                  content |-> pythonEntity.observations.elems[i]]]
             \o ExtractObservations(Tail(pythonEntities))

TransformFromPython(pythonGraph) ==
    [entities |-> [i \in 1..Len(pythonGraph.entities) |->
                      [name |-> pythonGraph.entities[i].name,
                       type |-> pythonGraph.entities[i].entityType]],
     relations |-> [i \in 1..Len(pythonGraph.relations) |->
                       [id |-> 0, from |-> pythonGraph.relations[i].from,
                        to |-> pythonGraph.relations[i].to,
                        type |-> pythonGraph.relations[i].relationType]],
     observations |-> ExtractObservations(pythonGraph.entities)]

\* The graphs transformed: lists of entities, relations and observations as
\* db.ReadGraph returns them, rows numbered in their order.
Numbered(rows) == [i \in 1..Len(rows) |-> [rows[i] EXCEPT !.id = i]]
EntityLists == SeqsUpTo({[name |-> n, type |-> t] : n \in Names, t \in Types}, MaxBatch)
RelationRowLists ==
    {Numbered(s) : s \in SeqsUpTo({[id |-> 0, from |-> "Alice", to |-> t, type |-> "works_at"] :
                                      t \in Names}, MaxBatch)}
ObservationRowLists ==
    {Numbered(s) : s \in SeqsUpTo({[id |-> 0, entityName |-> "Alice", content |-> "c1"],
                                   [id |-> 0, entityName |-> "Alice", content |-> "C1"],
                                   [id |-> 0, entityName |-> "Company", content |-> "c1"]},
                                  MaxBatch)}

InitTransform ==
    /\ db = EmptyDB
    /\ freeConn = <<InitConn>>
    /\ call = [p \in Procs |-> Idle]
    /\ \E entities \in EntityLists, relations \in RelationRowLists,
          observations \in ObservationRowLists :
          ret = Returned("graph", <<entities, relations, observations>>, 0, <<>>, FALSE, 0)
    /\ hist = <<>>
    /\ McpInit

\* ret keeps the graph given in args and what the last transformation
\* returned in its other fields.
CallTransformToPython ==
    /\ ret.op = "graph"
    /\ LET g == TransformToPython(ret.args[1], ret.args[2], ret.args[3])
       IN  ret' = [ret EXCEPT !.op = "TransformToPython", !.entities = g.entities,
                              !.relations = g.relations]
    /\ UNCHANGED <<db, freeConn, call, mcpVars>>

CallTransformFromPython ==
    /\ ret.op = "TransformToPython"
    /\ LET r == TransformFromPython(PythonKnowledgeGraph(ret.entities, ret.relations))
       IN  ret' = [ret EXCEPT !.op = "TransformFromPython", !.entities = r.entities,
                              !.relations = r.relations, !.observations = r.observations]
    /\ UNCHANGED <<db, freeConn, call, mcpVars>>

NextTransform == (CallTransformToPython \/ CallTransformFromPython) /\ UNCHANGED hist

SpecTransform == InitTransform /\ [][NextTransform]_vars

\* Two goroutines (the stdio loop and an HTTP handler, or two HTTP handlers)
\* calling the store at the same time.
NextConc == (\E p \in Procs : Step(p, ConcBatch, MaxId)) /\ UNCHANGED <<mcpVars, hist>>

SpecConc == Init /\ [][NextConc]_vars

\* An entry of the history: the goroutine, the call and its arguments, the step
\* its storage failed at, and for a ReadGraph the store when it began.
Logged(p, op, args, failAt, seen) ==
    [proc |-> p, op |-> op, args |-> args, failAt |-> failAt, seen |-> seen]

\* The calls entered so far.
Started ==
    Len(hist) + Cardinality({p \in Procs : call[p].op \in {"AddObservations", "DeleteEntities"}})

\* The arguments each goroutine passes: entities that overlap.
SerialNames == [g1 |-> {"Alice"}, g2 |-> {"Alice", "Company"}]
SerialDeletes == [g1 |-> {<<"Alice">>, <<"Alice", "Company">>}, g2 |-> {<<"Company">>}]
SerialObservations ==
    [g1 |-> {<<<<"Alice", "c1">>>>}, g2 |-> {<<<<"Alice", "c1">>, <<"Company", "c1">>>>}]

\* A goroutine calling the store: cascading deletes, creates and reads, each
\* call entered in the history when it returns (a ReadGraph when it begins).
SerialStep(p) ==
    \/ /\ Started < MaxOps
       /\ \/ \E n \in SerialNames[p] :
                /\ CreateEntity(p, n, "person")
                /\ hist' = Append(hist, Logged(p, "CreateEntity", <<n, "person">>, NoFailure, EmptyDB))
          \/ \E f \in {"Alice"}, t \in SerialNames[p] :
                /\ db.relSeq + db.obsSeq < MaxId
                /\ CreateRelation(p, f, t, "works_at")
                /\ hist' = Append(hist, Logged(p, "CreateRelation", <<f, t, "works_at">>,
                                               NoFailure, EmptyDB))
          \/ \E obs \in SerialObservations[p] :
                AddObservations(p, obs) /\ UNCHANGED hist
          \/ \E ns \in SerialDeletes[p] :
                DeleteEntities(p, ns, FALSE) /\ UNCHANGED hist
          \/ /\ ReadGraphEntities(p)
             /\ hist' = Append(hist, Logged(p, "ReadGraph", <<>>, NoFailure, db))
    \/ /\ AddObservationsExists(p)
       /\ hist' = IF call'[p].pc = "idle"
                  THEN Append(hist, Logged(p, "AddObservations", call[p].args, NoFailure, EmptyDB))
                  ELSE hist
    \/ /\ db.relSeq + db.obsSeq < MaxId
       /\ AddObservationsInsert(p)
       /\ hist' = IF call'[p].pc = "idle"
                  THEN Append(hist, Logged(p, "AddObservations", call[p].args, NoFailure, EmptyDB))
                  ELSE hist
    \/ \E failAt \in {NoFailure, "commit"} :
          /\ DeleteEntitiesRun(p, failAt)
          /\ hist' = Append(hist, Logged(p, "DeleteEntities", call[p].args, failAt, EmptyDB))
    \/ ReadGraphRelations(p) /\ UNCHANGED hist
    \/ ReadGraphObservations(p) /\ UNCHANGED hist

\* Two goroutines (two transports) calling the store at the same time.
NextSerial == (\E p \in Procs : SerialStep(p)) /\ UNCHANGED mcpVars

SpecSerial == Init /\ [][NextSerial]_vars

\* The store after the call e run alone, from its entry to its return, on the
\* connection Init prepared.
Serial(d, e) ==
    CASE e.op = "CreateEntity" -> InsertEntity(d, e.args[1], e.args[2])
      [] e.op = "CreateRelation" -> InsertRelation(d, InitConn, e.args[1], e.args[2], e.args[3]).db
      [] e.op = "AddObservations" -> AddObservationsLoop(d, InitConn, e.args, <<>>).db
      [] e.op = "DeleteEntities" -> DeleteEntitiesCall(d, InitConn, e.args, e.failAt).db
      [] OTHER -> d

\* The store after the calls of the history run one after the other in the
\* given order, from the k-th on.
RECURSIVE SerialOrder(_, _, _)
SerialOrder(d, order, k) ==
    IF k > Len(hist) THEN d
    ELSE SerialOrder(Serial(d, hist[order[k]]), order, k + 1)

\* The orders of the calls of the history.
Orders == {f \in [1..Len(hist) -> 1..Len(hist)] : \A i, j \in 1..Len(hist) : f[i] = f[j] => i = j}

\* The rows of the store without their ids: the entities, and how many
\* relations and observations of each content are stored.
RowsOf(d) ==
    [ents |-> d.ents,
     rels |-> [t \in Names \X Names \X RelTypes |->
                  Cardinality({r \in d.rels : <<r.from, r.to, r.type>> = t})],
     obs |-> [t \in Names \X Contents |->
                  Cardinality({o \in d.obs : <<o.entityName, o.content>> = t})]]

-----------------------------------------------------------------------------
(* Properties of the graph store. *)

\* goroutine p's transaction of DeleteEntities ends in this step.
DeleteEntitiesEnds(p) == \E f \in FailPoints : DeleteEntitiesRun(p, f)

\* goroutine p's DeleteEntities returns in this step because db.Begin failed.
DeleteEntitiesBeginFails(p) ==
    /\ ret'.op = "DeleteEntities"
    /\ \E ns \in NameLists \ {<<>>} : DeleteEntities(p, ns, TRUE)

\* goroutine p's AddObservations returns in this step.
AddObservationsReturns(p) ==
    /\ AddObservationsExists(p) \/ AddObservationsInsert(p)
    /\ call'[p].pc = "idle"

Touches(names, r) == r.from \in names \/ r.to \in names

\* C1: in every reachable state every stored relation's from and to, and every
\* stored observation's entityName, name an existing entity.
C1_ReferentialIntegrity ==
    /\ \A r \in db.rels : r.from \in EntityNames(db) /\ r.to \in EntityNames(db)
    /\ \A o \in db.obs : o.entityName \in EntityNames(db)

\* C2: when DeleteEntities(names) returns without error, no entity, no relation
\* endpoint and no observation owner is named by names; deleting Alice from
\* {Alice, Company, Alice-works_at->Company} leaves Company and no relation.
C2_DeleteEntitiesCascades ==
    [][\A p \in Procs :
         (DeleteEntitiesEnds(p) /\ ~ret'.err) =>
            LET names == Range(call[p].args)
                alice == [name |-> "Alice", type |-> "person"]
                company == [name |-> "Company", type |-> "organization"]
            IN  /\ EntityNames(db') \cap names = {}
                /\ \A r \in db'.rels : ~Touches(names, r)
                /\ \A o \in db'.obs : o.entityName \notin names
                /\ ( /\ call[p].args = <<"Alice">>
                     /\ db.ents = {alice, company}
                     /\ \A r \in db.rels : r.from = "Alice" /\ r.to = "Company" )
                   => (db'.ents = {company} /\ db'.rels = {})]_vars

C2_Witness ==
    /\ ret.op = "DeleteEntities" /\ ~ret.err /\ ret.args = {"Alice"} /\ ret.n = 2
    /\ db.ents = {[name |-> "Company", type |-> "organization"]}
    /\ db.rels = {} /\ db.relSeq = 1

\* C3: a DeleteEntities(names) that returns without error leaves every entity
\* not named, every relation with no named endpoint and every observation of
\* an entity not named as they were and adds nothing; with an empty list or
\* with names of no existing entity it changes nothing and returns no error.
C3_DeleteEntitiesFrame ==
    [][\A p \in Procs :
         /\ (DeleteEntitiesEnds(p) /\ ~ret'.err) =>
               LET names == Range(call[p].args)
               IN  /\ db'.ents = {e \in db.ents : e.name \notin names}
                   /\ db'.rels = {r \in db.rels : ~Touches(names, r)}
                   /\ db'.obs = {o \in db.obs : o.entityName \notin names}
                   /\ db'.relSeq = db.relSeq /\ db'.obsSeq = db.obsSeq
         /\ (DeleteEntitiesRun(p, NoFailure) /\ Range(call[p].args) \cap EntityNames(db) = {})
               => (db' = db /\ ~ret'.err)
         /\ (\E b \in BOOLEAN : DeleteEntities(p, <<>>, b)) => (db' = db /\ ~ret'.err)]_vars

C3_Witness ==
    /\ ret.op = "DeleteEntities" /\ ~ret.err /\ ret.n >= 2
    /\ ret.args \cap EntityNames(db) = {}
    /\ db.ents # {} /\ db.rels \cup db.obs # {}

\* C4: a DeleteEntities in which a statement or the commit fails returns an
\* error and leaves the store exactly as it was.
C4_DeleteEntitiesAtomic ==
    [][\A p \in Procs :
         /\ \A f \in FailPoints \ {NoFailure} :
               DeleteEntitiesRun(p, f) => (ret'.err /\ db' = db)
         /\ (DeleteEntitiesEnds(p) /\ ret'.err) => db' = db
         /\ DeleteEntitiesBeginFails(p) => (ret'.err /\ db' = db)]_vars

C4_Witness ==
    /\ ret.op = "DeleteEntities" /\ ret.err /\ ret.n = 0
    /\ \E n \in ret.args :
          /\ n \in EntityNames(db)
          /\ \E r \in db.rels : Touches({n}, r)
          /\ \E o \in db.obs : o.entityName = n

\* C7: an AddObservations whose batch has an item naming a non-existent entity
\* returns an error and no ids, and has stored none of the batch's items.
C7_AddObservationsAllOrNothing ==
    [][\A p \in Procs :
         ( /\ AddObservationsReturns(p)
           /\ \E k \in 1..Len(call[p].args) : call[p].args[k][1] \notin EntityNames(db) )
         => (ret'.err /\ ret'.ids = <<>> /\ ret'.n = 0 /\ db'.obs = db.obs
             /\ Len(call[p].added) = 0)]_vars

\* C8: CreateEntity never returns an error; for a name already stored it
\* changes nothing (the entity keeps its type), for a new name it adds the one
\* entity; no two stored entities share a name.
C8_CreateEntityIdempotent ==
    [][\A p \in Procs, name \in Names, type \in Types :
         CreateEntity(p, name, type) =>
            /\ ~ret'.err
            /\ Cardinality({e \in db'.ents : e.name = name}) = 1
            /\ name \in EntityNames(db) => db'.ents = db.ents
            /\ name \notin EntityNames(db) =>
                  /\ db'.ents = db.ents \cup {[name |-> name, type |-> type]}
                  /\ Cardinality(db'.ents) = Cardinality(db.ents) + 1]_vars

C8_Witness ==
    /\ ret.op = "CreateEntity" /\ ~ret.err /\ ret.n = 0
    /\ \E e \in db.ents : e.name = ret.args[1] /\ e.type # ret.args[2]

\* C9: CreateRelation and CreateObservation return an error and store nothing
\* when an entity they name does not exist; otherwise they store one new record
\* and return its id, which is positive and no other stored record's.
C9_CreateChecksEndpoints ==
    [][\A p \in Procs :
         /\ \A from \in Names, to \in Names, type \in RelTypes :
               CreateRelation(p, from, to, type) =>
                  IF {from, to} \subseteq EntityNames(db)
                  THEN /\ ~ret'.err /\ ret'.id > 0
                       /\ ret'.id \notin {r.id : r \in db.rels}
                       /\ db'.rels = db.rels \cup {[id |-> ret'.id, from |-> from,
                                                    to |-> to, type |-> type]}
                  ELSE ret'.err /\ db' = db
         /\ \A entityName \in Names, content \in Contents :
               CreateObservation(p, entityName, content) =>
                  IF entityName \in EntityNames(db)
                  THEN /\ ~ret'.err /\ ret'.id > 0
                       /\ ret'.id \notin {o.id : o \in db.obs}
                       /\ db'.obs = db.obs \cup {[id |-> ret'.id, entityName |-> entityName,
                                                  content |-> content]}
                  ELSE ret'.err /\ db' = db]_vars

-----------------------------------------------------------------------------
(* Properties of the transports and the dispatcher. *)

\* The events written so far on every connection's stream.
Events == [c \in SSEConns |-> <<sess[c].hello, sess[c].messages, sess[c].last, sess[c].pings>>]

\* The request of the line, had it carried the id 1.
WithID(req) == [req EXCEPT !.id = "1"]

\* C5: on the stdio transport and on the SSE transport, a request whose id is
\* absent or null causes no response line and no message event, while the
\* dispatcher is called exactly once for it and changes the store as it does
\* for the same request with an id (a create_entities creates its entity).
C5_NotificationsUnanswered ==
    [][/\ \A line \in FewLines :
            (line.kind = "json" /\ line.id \in {"absent", "null"} /\ Stdio(line, NoFailure)) =>
               /\ stdio'.n = stdio.n /\ stdio'.last = stdio.last
               /\ Events' = Events
               /\ stdio'.calls = stdio.calls + 1 /\ Dispatched' = Dispatched + 1
               /\ db' = HandleJSONRPCMethod(db, Conn, WithID(Decode(line)), NoFailure).db
               /\ line.params = CreateAlice => "Alice" \in EntityNames(db')
       /\ \A c \in SSEConns :
            (SSERecv(c, NoFailure) /\ Head(sess[c].messageChan).id = NilID) =>
               /\ Events' = Events
               /\ stdio'.n = stdio.n /\ stdio'.last = stdio.last
               /\ sess'[c].calls = sess[c].calls + 1 /\ Dispatched' = Dispatched + 1
               /\ db' = HandleJSONRPCMethod(db, Conn, WithID(Head(sess[c].messageChan)),
                                            NoFailure).db
               /\ Head(sess[c].messageChan).params = CreateAlice
                     => "Alice" \in EntityNames(db')]_vars

\* Both transports have handled one notification each, and the entity of the
\* create_entities among them is stored.
C5_Witness ==
    /\ stdio.calls = 1 /\ stdio.n = 0
    /\ sess["sse1"].calls = 1 /\ sess["sse1"].messages = 0
    /\ sess["sse1"].hello = <<Event("session", "s1"), Event("endpoint", "/messages")>>
    /\ sess["sse1"].messageChan = <<>>
    /\ "Alice" \in EntityNames(db)

\* The store call made for the tool call of params returns an error.
StoreCallFails(d, conn, params, failAt) ==
    LET arguments == params.arguments
        items == arguments.items
    IN  CASE params.name = "create_relations" /\ arguments.key = "relations" ->
                \E k \in 1..Len(items) :
                    /\ RelationItems(<<items[k]>>) # <<>>
                    /\ InsertRelation(CreateRelationsLoop(d, conn, SubSeq(items, 1, k - 1),
                                                          <<>>).db,
                                      conn, items[k].from, items[k].to,
                                      items[k].relationType).err
          [] params.name = "add_observations" /\ arguments.key = "observations" ->
                AddObservationsLoop(d, conn, ObservationItems(items), <<>>).err
          [] params.name = "delete_entities" /\ arguments.key = "entityNames" ->
                DeleteEntitiesCall(d, conn, Strings(items), failAt).err
          [] params.name = "create_relation" /\ Missing \notin {arguments.str["from_entity"],
                    arguments.str["to_entity"], arguments.str["relation_type"]} ->
                InsertRelation(d, conn, arguments.str["from_entity"],
                               arguments.str["to_entity"], arguments.str["relation_type"]).err
          [] params.name = "create_observation" /\ Missing \notin {arguments.str["entity_name"],
                    arguments.str["content"]} ->
                InsertObservation(d, conn, arguments.str["entity_name"],
                                  arguments.str["content"]).err
          [] OTHER -> FALSE

\* C6: a tools/call with an id to a recognized tool whose store operation
\* fails is answered by a success envelope carrying the request's id and a
\* tool result with isError set, and a call of one item that fails (a
\* create_relations whose from entity does not exist) leaves the store, and
\* with it the number of relations, as it was.
C6_ToolFailureIsErrorResult ==
    [][\A line \in StdioLines : \A f \in Failures(line) :
         ( /\ Stdio(line, f)
           /\ line.kind = "json" /\ line.method = "tools/call" /\ line.id = "1"
           /\ line.params.object /\ line.params.hasArguments
           /\ line.params.name \in ToolNames \cup LegacyToolNames
           /\ StoreCallFails(db, Conn, line.params, f) )
         => /\ stdio'.n = stdio.n + 1
            /\ stdio'.last.kind = "result" /\ stdio'.last.id = "1"
            /\ stdio'.last.isError
            /\ Len(line.params.arguments.items) <= 1 =>
                  (db' = db /\ Cardinality(db'.rels) = Cardinality(db.rels))]_vars

\* handler h's handling of its request ends in this step.
PostEnds(h) == post[h].pc \in {"send", "blocked"} /\ post'[h].pc \notin {"send", "blocked"}

\* C10: a POST of a message is answered 400 when its session header is
\* missing, its body is no JSON or its jsonrpc is not "2.0"; else 404 when its
\* session id is not in the registry; else 202 with its request placed in the
\* session's queue, or 503 with the queue full to the end of its wait; and no
\* handling ends without one of these answers.
C10_PostAnswers ==
    [][\A h \in Handlers :
         /\ \A sessionID \in {""} \cup SessionIds, body \in PostBodies :
               PostRequest(h, sessionID, body, QueueCap + 1) =>
                  IF sessionID = "" \/ body.kind # "json" \/ body.jsonrpc # "2.0"
                  THEN post'[h] = [Answered(400) EXCEPT !.sessionID = sessionID]
                  ELSE IF sessions[sessionID] = NoSession
                  THEN post'[h] = [Answered(404) EXCEPT !.sessionID = sessionID]
                  ELSE post'[h].pc = "send" /\ post'[h].status = 0
         /\ PostEnds(h) =>
               LET queue == sess[post[h].session].messageChan
                   queue2 == sess'[post[h].session].messageChan
               IN  /\ post'[h].pc = "done"
                   /\ \/ /\ post'[h].status = 202
                         /\ queue2 # <<>> /\ queue2[Len(queue2)] = post[h].req
                         /\ queue2 = Append(queue, post[h].req)
                            \/ (Len(queue) = QueueCap
                                /\ queue2 = Append(Tail(queue), post[h].req))
                      \/ /\ post'[h].status = 503
                         /\ post[h].pc = "blocked"
                         /\ Len(queue) = QueueCap /\ queue2 = queue]_vars


\* The requests queued in the sessions and the handlers waiting to queue one.
Queues == [c \in SSEConns |-> <<sess[c].messageChan, sess[c].sendq>>]

\* C11: a POST of a JSON-RPC 2.0 message whose X-Session-ID is not in the
\* registry is answered 404 at once; it calls no dispatcher, changes neither
\* the store nor any session's queue nor the registry, and the same holds of
\* every repetition (a body that does not decode, or of another version, is
\* answered 400 before the lookup, with as little effect).
C11_UnknownSessionIs404 ==
    [][\A h \in Handlers, sessionID \in SessionIds, body \in PostBodies :
         (PostRequest(h, sessionID, body, QueueCap + 1) /\ sessions[sessionID] = NoSession) =>
            /\ post'[h].pc = "done"
            /\ (body.kind = "json" /\ body.jsonrpc = "2.0") => post'[h].status = 404
            /\ post'[h].status \in {400, 404}
            /\ Dispatched' = Dispatched /\ db' = db
            /\ Queues' = Queues /\ sessions' = sessions
            /\ Events' = Events /\ stdio' = stdio]_vars

\* Two POSTs naming s2, which is in no registry entry, are both answered 404
\* while the session s1 is open with a request queued and not yet handled.
C11_Witness ==
    /\ \A h \in Handlers : post[h] = [Answered(404) EXCEPT !.sessionID = "s2"]
    /\ sessions["s2"] = NoSession /\ sessions["s1"] = "sse1"
    /\ sess["sse1"].pc = "loop" /\ Len(sess["sse1"].messageChan) = 1
    /\ Dispatched = 0 /\ db = EmptyDB

\* C12: of the POSTs that found a registered session, exactly those answered
\* 202 have their request placed in the session's queue (in every step the
\* queue grows by the requests accepted in it and shrinks by the one the loop
\* receives); a POST answered 503 leaves the queue as it is, is no longer
\* waiting to send and causes no dispatcher call; and no queue ever holds
\* more than QueueCap requests.
C12_QueuedIffAccepted ==
    [][/\ \A c \in SSEConns :
            LET queue == sess[c].messageChan
                queue2 == sess'[c].messageChan
                accepted == {h \in Handlers : post[h].session = c /\ PostEnds(h)
                                                 /\ post'[h].status = 202}
            IN  /\ Len(queue) <= QueueCap /\ Len(queue2) <= QueueCap
                /\ Len(queue2) = Len(queue) - (sess'[c].calls - sess[c].calls)
                                   + Cardinality(accepted)
                /\ \A h \in accepted : queue2[Len(queue2)] = post[h].req
       /\ \A h \in Handlers :
            (PostEnds(h) /\ post'[h].status = 503) =>
               /\ sess'[post[h].session].messageChan = sess[post[h].session].messageChan
               /\ h \notin Range(sess'[post[h].session].sendq)
               /\ Dispatched' = Dispatched
       /\ \A h \in Handlers :
            (PostEnds(h) /\ post'[h].pc = "done") => post'[h].status \in {202, 503}]_vars

\* The queue of s1 is full; one POST waited and was answered 503, the other
\* waited until the loop received a request and was answered 202.
C12_Witness ==
    /\ post["h1"].status = 503 /\ post["h2"].status = 202
    /\ Len(sess["sse1"].messageChan) = QueueCap
    /\ sess["sse1"].calls = 1 /\ sess["sse1"].sendq = <<>>

\* The sessions that are Open: registered and not yet out of the loop.
Open(c) == sess[c].pc \in {"registered", "hello", "loop"}

\* C15: any two connections that have generated their session id have
\* different ids, and every Open session is the registry's entry of its id
\* (no other connection's registration has replaced it).
C15_SessionIdsUnique ==
    /\ \A c, d \in SSEConns :
          (c # d /\ sess[c].pc # "unborn" /\ sess[d].pc # "unborn")
             => sess[c].sessionID # sess[d].sessionID
    /\ \A c \in SSEConns : Open(c) => sessions[sess[c].sessionID] = c

\* C13: on every connection the events written before the loop are the
\* session event carrying the session's id and then the endpoint event
\* carrying /messages (fewer if the connection broke); the first of them is
\* written with the session registered in the registry under its id; and a
\* message or ping event is written only after both.
C13_SessionThenEndpoint ==
    [][\A c \in SSEConns :
         LET both == <<Event("session", sess'[c].sessionID), Event("endpoint", "/messages")>>
         IN  /\ \E k \in 0..2 : sess'[c].hello = SubSeq(both, 1, k)
             /\ (sess[c].hello = <<>> /\ sess'[c].hello # <<>>) =>
                   /\ sess[c].sessionID \in SessionIds
                   /\ sessions[sess[c].sessionID] = c
             /\ (sess'[c].messages > sess[c].messages \/ sess'[c].pings > sess[c].pings) =>
                   sess[c].hello = both
             /\ (sess'[c].messages > 0 \/ sess'[c].pings > 0) => sess'[c].hello = both]_vars

\* The connection of s1 has written its session and endpoint events, then a
\* message event and a ping event, and later writes have failed: a request was
\* dispatched with no event for it.
C13_Witness ==
    /\ sess["sse1"].hello = <<Event("session", "s1"), Event("endpoint", "/messages")>>
    /\ sess["sse1"].messages = 1 /\ sess["sse1"].pings = 1
    /\ sess["sse1"].calls = 2 /\ sess["sse1"].broken

\* The sessions that are Closed: out of the loop, their entry deleted.
Closed(c) == sess[c].pc \in {"deregistered", "closed"}

\* C14: an Open session whose context is cancelled eventually has its loop
\* ended, its registry entry removed and its queue closed; a Closed session
\* stays Closed and is not in the registry, and a POST of a JSON-RPC 2.0
\* message carrying its id is answered 404; and the loop ends in no step but
\* the one taking the cancelled context (not on a dispatcher error, a failed
\* write or a ping).
C14_ClosesOnCancelOnly ==
    /\ \A c \in SSEConns :
          (Open(c) /\ sess[c].cancelled)
             ~> (sess[c].pc = "closed" /\ sessions[sess[c].sessionID] # c)
    /\ [][\A c \in SSEConns :
            /\ Closed(c) => (Closed(c)' /\ sessions'[sess[c].sessionID] # c)
            /\ (sess[c].pc = "loop" /\ sess'[c].pc # "loop") =>
                  (sess[c].cancelled /\ SSEDisconnect(c))
            /\ (SSERecv(c, NoFailure) \/ SSEPing(c) \/ SSEBreak(c)) => sess'[c].pc = sess[c].pc
            /\ \A sessionID \in SessionIds, body \in LifeBodies :
                  ( /\ Closed(c) /\ sess[c].sessionID = sessionID
                    /\ PostRequest("h1", sessionID, body, MaxQueued) )
                  => post'["h1"].status = 404]_vars

\* C16: for every request, HandleJSONRPCMethod returns a response with the
\* request's id and exactly one of result and error; initialize yields a
\* result; a method other than initialize, tools/list and tools/call yields
\* the error -32601; tools/call whose params are no object or lack a string
\* name or an object arguments yields the error -32602, and with an unknown
\* tool name the error -32601; and this response is the one the loop writes
\* for a request with an id.
C16_DispatcherResolves ==
    [][\A line \in RpcLines : \A f \in Failures(line) :
         (line.kind = "json" /\ Stdio(line, f)) =>
            LET req == Decode(line)
                resp == HandleJSONRPCMethod(db, Conn, req, f).resp
                params == req.params
                wellFormed == params.object /\ params.name # Missing /\ params.hasArguments
            IN  /\ resp.id = req.id
                /\ Cardinality(Members(resp) \cap {"result", "error"}) = 1
                /\ ("error" \in Members(resp)) <=> (resp.code # 0)
                /\ req.method = "initialize" => ("result" \in Members(resp) /\ ~resp.isError)
                /\ req.method \notin {"initialize", "tools/list", "tools/call"} =>
                      ("error" \in Members(resp) /\ resp.code = -32601)
                /\ (req.method = "tools/call" /\ ~wellFormed) =>
                      ("error" \in Members(resp) /\ resp.code = -32602)
                /\ (req.method = "tools/call" /\ wellFormed
                       /\ params.name \notin ToolNames \cup LegacyToolNames) =>
                      ("error" \in Members(resp) /\ resp.code = -32601)
                /\ (req.method = "tools/call" /\ wellFormed
                       /\ params.name \in ToolNames \cup LegacyToolNames) =>
                      "result" \in Members(resp)
                /\ req.id # NilID => (stdio'.n = stdio.n + 1 /\ stdio'.last = resp)]_vars

\* The dispatcher has answered an unknown method with the error -32601 and the
\* request's id, after a tools/call has created Alice.
C16_Witness ==
    /\ stdio.calls = 2 /\ stdio.n = 2
    /\ stdio.last = ErrorResponse("1", -32601, "Method not found")
    /\ "Alice" \in EntityNames(db)

\* The host of an origin (scheme "://" host, then ":" port if any).
OriginHost(origin) ==
    LET colons == {i \in 1..Len(origin) : origin[i] = ":"}
        start == IF colons = {} THEN 1
                 ELSE (CHOOSE i \in colons : \A j \in colons : i <= j) + 3
        rest == SubSeq(origin, start, Len(origin))
        ends == {i \in 1..Len(rest) : rest[i] \in {":", "/"}}
    IN  IF ends = {} THEN rest
        ELSE SubSeq(rest, 1, (CHOOSE i \in ends : \A j \in ends : i <= j) - 1)

\* localhost and 127.0.0.1
LoopbackHosts == {SubSeq(HttpLocalhost, 8, 16), SubSeq(Http127, 8, 16)}

\* The status the goroutine g has answered.
StatusOf(g) == IF g \in SSEConns THEN sess[g].status ELSE post[g].status

\* C17: a request to /sse, /messages, /mcp or /mcp/legacy whose Origin header
\* names a host other than localhost and 127.0.0.1 is answered 403, and no
\* session is registered, no message queued and the dispatcher not called for
\* it; a request without an Origin header is never answered 403.
C17_ForeignOriginRefused ==
    [][\A g \in {"sse1", "h1"}, r \in HTTPRequests :
          corsMiddleware(g, r, "s1") =>
             /\ (r.origin # NoOrigin /\ OriginHost(r.origin) \notin LoopbackHosts) =>
                   /\ StatusOf(g)' = 403
                   /\ sessions' = sessions
                   /\ Queues' = Queues
                   /\ Dispatched' = Dispatched
                   /\ db' = db
                   /\ g \in Handlers => post'[g].resp = NoResponse
             /\ r.origin = NoOrigin => StatusOf(g)' # 403]_vars

\* The loop of handleStdioMCP has read the line, of whatever length.
LineRead(line) == (\E f \in Failures(line) : Stdio(line, f)) \/ StdioTooLong(line)

\* C18: a line read by the stdio loop does not stop it; a blank line and a
\* line that is no JSON produce no output and no call of the dispatcher; a
\* JSON line is dispatched once, and its response is the next line written
\* if it has an id, while nothing is written if it has none.
C18_LoopHandlesEveryLine ==
    [][\A line \in ScanLines :
          LineRead(line) =>
             /\ ~stdio'.stopped
             /\ line.kind # "json" =>
                   /\ stdio'.n = stdio.n /\ stdio'.last = stdio.last
                   /\ stdio'.calls = stdio.calls
                   /\ db' = db
             /\ line.kind = "json" =>
                   /\ stdio'.calls = stdio.calls + 1
                   /\ IF Decode(line).id = NilID
                      THEN stdio'.n = stdio.n /\ stdio'.last = stdio.last
                      ELSE /\ stdio'.n = stdio.n + 1
                           /\ \E f \in Failures(line) :
                                 LET r == HandleJSONRPCMethod(db, Conn, Decode(line), f)
                                 IN  stdio'.last = r.resp /\ db' = r.db]_vars

\* The text s contains the text q, letters compared without regard to case.
Contains(s, q) ==
    LET t == ToLower(Chars[s])
        u == ToLower(Chars[q])
    IN  \E i \in 1..(Len(t) + 1) :
           i + Len(u) - 1 <= Len(t) /\ SubSeq(t, i, i + Len(u) - 1) = u

\* The entities of d whose name, type or an observation's content contains q.
Containing(d, q) ==
    {e \in d.ents :
        \/ Contains(e.name, q) \/ Contains(e.type, q)
        \/ \E o \in d.obs : o.entityName = e.name /\ Contains(o.content, q)}

\* C19: SearchNodes(query) returns the entities whose name, type or one of
\* whose observations' contents contains query as a substring, case ignored,
\* and only those, with the relations that have a returned entity as from or
\* to, and only those; without a matching entity it returns no relation.
C19_SearchNodesExact ==
    [][\A query \in SearchQueries :
          CallSearchNodes("g1", query) =>
             LET found == Containing(db, query)
             IN  /\ ret'.entities = found
                 /\ ret'.relations = RelationsOf(db, {e.name : e \in found})
                 /\ found = {} => ret'.relations = {}]_vars

\* C20: OpenNodes(names) returns the stored entities named in names, and only
\* those, with the relations that have a returned entity as from or to, and
\* only those; for no name and for names of no stored entity it returns no
\* entity, no relation and no error.
C20_OpenNodesExact ==
    [][\A nodeNames \in NameLists :
          CallOpenNodes("g2", nodeNames) =>
             LET existing == {e \in db.ents : e.name \in Range(nodeNames)}
             IN  /\ ret'.entities = existing
                 /\ ret'.relations = RelationsOf(db, {e.name : e \in existing})
                 /\ ~ret'.err
                 /\ existing = {} => (ret'.entities = {} /\ ret'.relations = {})]_vars

\* C21: DeleteRelations removes the stored relations whose from, to and type
\* equal those of an item and nothing else; an item that matches no relation
\* is no error; and when the delete of an item fails, none of the deletes of
\* the call has taken effect.
C21_DeleteRelationsExactAtomic ==
    [][\A failAt \in 0..MaxBatch :
          (ret'.op = "DeleteRelations" /\ CallDeleteRelations("g1", ret'.args, failAt)) =>
             LET matched == {r \in db.rels :
                               [from |-> r.from, to |-> r.to, type |-> r.type]
                                   \in Range(ret'.args)}
             IN  /\ failAt = 0 => ~ret'.err
                 /\ ~ret'.err =>
                       /\ db'.rels = db.rels \ matched
                       /\ db'.ents = db.ents /\ db'.obs = db.obs
                 /\ ret'.err => db' = db]_vars

\* C22: DeleteObservations removes, for every item, the observations of the
\* item's entity whose content equals one of the item's strings, every copy of
\* them, and no other row; an item with an empty list removes nothing; and a
\* call that fails has removed nothing but observations it was asked to.
C22_DeleteObservationsFrame ==
    [][\A failAt \in 0..MaxBatch :
          (ret'.op = "DeleteObservations" /\ CallDeleteObservations("g1", ret'.args, failAt)) =>
             LET deletions == ret'.args
                 asked == {o \in db.obs :
                               \E k \in 1..Len(deletions) :
                                  /\ deletions[k].entityName = o.entityName
                                  /\ o.content \in Range(deletions[k].observations)}
             IN  /\ db'.ents = db.ents /\ db'.rels = db.rels
                 /\ db'.obs \subseteq db.obs /\ (db.obs \ db'.obs) \subseteq asked
                 /\ failAt = 0 => ~ret'.err
                 /\ ~ret'.err => db'.obs = db.obs \ asked
                 /\ (\A k \in 1..Len(deletions) : deletions[k].observations = <<>>) =>
                       (db' = db /\ ~ret'.err)]_vars

\* DeleteObservations has removed the two copies of one content of Alice.
C22_Witness ==
    /\ ret.op = "DeleteObservations" /\ ~ret.err /\ ret.n = 2
    /\ ret.args = <<[entityName |-> "Alice", observations |-> <<"C1", "c1">>]>>
    /\ db.obs = {} /\ db.obsSeq = 2

\* C23: ReadGraph returns the stored entities, relations and observations, all
\* of them and nothing else, without error and without changing the store;
\* and a ReadGraph that returns right after another ReadGraph has returned,
\* with no write since, returns what that one returned.
C23_ReadGraphSnapshot ==
    [][ReadGraphObservations("g1") =>
          /\ ret'.entities = db.ents
          /\ ret'.relations = db.rels
          /\ ret'.observations = db.obs
          /\ ~ret'.err /\ db' = db
          /\ ret.op = "ReadGraph" => ret' = ret]_vars

\* C24: the id of a relation is that of no other stored relation; a relation
\* created gets an id greater than every id given before it, those of
\* relations deleted since included: the greatest id ever given never
\* decreases and no stored relation has a greater one.
C24_RelationIdsIncrease ==
    /\ [](\A r, s \in db.rels : r.id = s.id => r = s)
    /\ [](\A r \in db.rels : r.id <= db.relSeq)
    /\ [][db'.relSeq >= db.relSeq]_vars
    /\ [][\A f \in Names, t \in Names, ty \in RelTypes :
            (CreateRelation("g1", f, t, ty) /\ ~ret'.err) =>
               /\ ret'.id > db.relSeq
               /\ db'.rels = db.rels \cup {[id |-> ret'.id, from |-> f, to |-> t, type |-> ty]}]_vars

\* A relation has been created after the only relation created before it was
\* deleted: it has the id 2.
C24_Witness ==
    /\ ret.op = "CreateRelation" /\ ~ret.err /\ ret.id = 2
    /\ Cardinality(db.rels) = 1

-----------------------------------------------------------------------------
(* Array arguments of the tools. *)

\* An item of a tool's array that is an object with every required member.
WellFormed(name, item) ==
    /\ item.object
    /\ CASE name = "create_entities" -> item.name # Missing /\ item.entityType # Missing
         [] name = "add_observations" -> item.entityName # Missing /\ item.contents # Missing
         [] name = "delete_observations" -> item.entityName # Missing /\ item.hasObservations
         [] OTHER -> item.from # Missing /\ item.to # Missing /\ item.relationType # Missing

WellFormedItems(name, items) == SelectSeq(items, LAMBDA item : WellFormed(name, item))

\* The store holds what the item asked for.
AppliedTo(d, name, item) ==
    CASE name = "create_entities" -> [name |-> item.name, type |-> item.entityType] \in d.ents
      [] name = "delete_observations" ->
            \A o \in d.obs : ~(/\ o.entityName = item.entityName
                                /\ o.content \in Range(Strings(item.observations)))
      [] name = "delete_relations" ->
            \A r \in d.rels : ~(/\ r.from = item.from /\ r.to = item.to
                                 /\ r.type = item.relationType)
      [] OTHER -> TRUE

\* C25: a tools/call with an array of objects has the effect and the answer
\* of the same call without the items that are no object or lack a required
\* member, and the number its answer reports is the number of items applied
\* to the store: rows created for create_relations and add_observations,
\* items the store reflects afterwards for the others.
C25_ItemsSkippedCountApplied ==
    [][(ret'.op \in DOMAIN ArrayKey /\ CallToolsCall("g1", ret'.op, ret'.args)) =>
          LET name == ret'.op
              kept == WellFormedItems(name, ret'.args)
              r == handleToolCall(db, Conn, ToolRequest(name, kept), NoFailure)
          IN  /\ db' = r.db
              /\ ret'.n = r.resp.text.n
              /\ ret'.err = r.resp.isError
              /\ ~ret'.err =>
                    ret'.n = CASE name = "create_relations" ->
                                     Cardinality(db'.rels) - Cardinality(db.rels)
                               [] name = "add_observations" ->
                                     Cardinality(db'.obs) - Cardinality(db.obs)
                               [] OTHER ->
                                     Cardinality({i \in 1..Len(kept) :
                                                     AppliedTo(db', name, kept[i])})]_vars

-----------------------------------------------------------------------------
(* The lock of the session registry. *)

\* Nobody but the handler h holds sessionManager.mu.
FreeBut(h) == Writers = {} /\ Readers \ {h} = {}

\* C26: a connection registering or deregistering holds the registry lock
\* alone, without any other writer and without any handler looking up; a
\* POST handler holds the lock only during its lookup; and while a handler
\* waits to enqueue into a full queue, a registration or a deregistration
\* that nobody else holds up takes the lock, another handler starts its
\* lookup, and a handler sending to another session with room enqueues.
C26_ReadLockForLookupOnly ==
    /\ \A c \in Writers : Writers = {c} /\ Readers = {}
    /\ \A c \in SSEConns : sess[c].lock <=> sess[c].pc \in {"locked", "deleting"}
    /\ \A h \in Handlers : post[h].rlock <=> post[h].pc = "rlocked"
    /\ \A h \in Handlers : post[h].pc = "blocked" =>
          /\ Len(sess[post[h].session].messageChan) = QueueCap
          /\ \A c \in SSEConns :
                /\ (sess[c].pc = "unborn" /\ FreeBut(h)) => ENABLED SSELock(c, "s2")
                /\ (sess[c].pc = "loop" /\ sess[c].cancelled /\ FreeBut(h))
                      => ENABLED SSEDeferLock(c)
          /\ \A h2 \in Handlers \ {h} :
                /\ (post[h2].pc = "idle" /\ Writers = {}
                       /\ sess["sse2"].messageChan = <<>>)
                      => ENABLED PostRLock(h2, "s2", LockBody, MaxQueued)
                /\ (post[h2].pc = "send" /\ post[h2].session # post[h].session)
                      => ENABLED PostSend(h2)

\* A handler waits on the full queue of one session while the other
\* connection holds the lock to register and the other handler has delivered
\* a message to nobody yet.
C26_Witness ==
    /\ post["h1"].pc = "blocked" /\ Len(sess["sse1"].messageChan) = QueueCap
    /\ sess["sse2"].pc = "locked"

-----------------------------------------------------------------------------
(* The Python-compatible API. *)

\* C27: POST /create_entities with a batch of which an entity exists is
\* answered 409 with the names of the batch that exist, and leaves the store
\* as it was; with a batch of which none exists it is answered 201, and
\* afterwards the store holds every entity of the batch and, for each of its
\* embedded observations, a new observation of that entity.
C27_ConflictOrAllCreated ==
    [][(ret'.op = "POST /create_entities" /\ PythonCreateEntities("g1", ret'.args)) =>
          LET entities == ret'.args
              existing == {entities[i].name : i \in 1..Len(entities)} \cap EntityNames(db)
          IN  IF existing # {}
              THEN /\ ret'.n = 409
                   /\ Range(ret'.ids) = existing
                   /\ db' = db
              ELSE /\ ret'.n = 201
                   /\ \A i \in 1..Len(entities) :
                         /\ [name |-> entities[i].name, type |-> entities[i].entityType]
                               \in db'.ents
                         /\ \A c \in Range(entities[i].observations) :
                               \E o \in db'.obs \ db.obs :
                                  o.entityName = entities[i].name /\ o.content = c]_vars

\* The contents of the observations of the entity name, in their order.
ContentsOf(observations, name) ==
    LET of == SelectSeq(observations, LAMBDA o : o.entityName = name)
    IN  [i \in 1..Len(of) |-> of[i].content]

Triples(relations) ==
    [i \in 1..Len(relations) |->
        <<relations[i].from, relations[i].to, relations[i].type>>]

\* Entities of distinct names, and observations and relations that refer to
\* them only.
WellReferenced(entities, relations, observations) ==
    LET names == {entities[i].name : i \in 1..Len(entities)}
    IN  /\ \A i, j \in 1..Len(entities) : entities[i].name = entities[j].name => i = j
        /\ \A i \in 1..Len(relations) : relations[i].from \in names /\ relations[i].to \in names
        /\ \A i \in 1..Len(observations) : observations[i].entityName \in names

\* C28: TransformToPython gives every entity a non-nil list of observations,
\* empty if it has none; and for entities of distinct names with relations and
\* observations that refer to them, TransformFromPython of the result returns
\* the entities in their order, the relations' triples in their order, and
\* for each entity the contents of its observations in their order.
C28_TransformRoundTrip ==
    /\ ret.op = "TransformToPython" =>
          \A i \in 1..Len(ret.entities) :
             /\ ~ret.entities[i].observations.nil
             /\ ContentsOf(ret.args[3], ret.entities[i].name) = <<>>
                   => ret.entities[i].observations.elems = <<>>
    /\ (ret.op = "TransformFromPython" /\ WellReferenced(ret.args[1], ret.args[2], ret.args[3])) =>
          /\ ret.entities = ret.args[1]
          /\ Triples(ret.relations) = Triples(ret.args[2])
          /\ \A n \in Names : ContentsOf(ret.observations, n) = ContentsOf(ret.args[3], n)

\* Two entities, the second without observations, the first with two that
\* another entity's observation separates, have gone there and back.
C28_Witness ==
    /\ ret.op = "TransformFromPython"
    /\ WellReferenced(ret.args[1], ret.args[2], ret.args[3])
    /\ Len(ret.args[1]) = 2 /\ Len(ret.args[2]) = 2
    /\ ContentsOf(ret.args[3], "Alice") = <<"c1">>
    /\ ContentsOf(ret.args[3], "Company") = <<"c1">>
    /\ ret.args[3][1].entityName = "Company"

-----------------------------------------------------------------------------
(* The end of a session and the POSTs to it. *)

\* C29: a handler executes its send on a session's channel only while the
\* channel is open, and no handler waits in a send on a channel when it is
\* closed.
C29_NoSendOnClosedQueue ==
    [][/\ \A h \in Handlers : PostSend(h) => sess[post[h].session].pc # "closed"
       /\ \A c \in SSEConns : SSEClose(c) => sess[c].sendq = <<>>]_vars

\* The loop of the connection has returned: it receives nothing more.
LoopEnded(c) == sess[c].pc \in {"deregistered", "closed"}

\* C30: the loop passes a request to the dispatcher only by taking it off the
\* head of the queue, one request a call, and no accepted request is left in
\* the queue of a session whose loop has returned: every request answered
\* 202 reaches the dispatcher, and reaches it once.
C30_AcceptedIsDispatchedOnce ==
    /\ [][\A c \in SSEConns :
            sess'[c].calls # sess[c].calls =>
               /\ sess'[c].calls = sess[c].calls + 1
               /\ sess[c].messageChan # <<>>
               /\ SubSeq(sess'[c].messageChan, 1, Len(sess[c].messageChan) - 1)
                     = Tail(sess[c].messageChan)]_vars
    /\ [](\A c \in SSEConns : LoopEnded(c) => sess[c].messageChan = <<>>)

-----------------------------------------------------------------------------
(* The order of dispatch within a session. *)

-----------------------------------------------------------------------------
(* The registry of sessions. *)

\* C32: the registry's entries are those of the connections that have
\* registered and not yet deregistered, each under the id of its own
\* session; and a step that removes an entry is the deregistration of the
\* connection the entry maps to.
C32_RegistryIsTheOpenSessions ==
    /\ [](\A c \in SSEConns : Open(c) => sessions[sess[c].sessionID] = c)
    /\ [](\A id \in SessionIds :
            sessions[id] # NoSession =>
               Open(sessions[id]) /\ sess[sessions[id]].sessionID = id)
    /\ [][\A id \in SessionIds :
            (sessions[id] # NoSession /\ sessions'[id] # sessions[id]) =>
               /\ sessions'[id] = NoSession
               /\ sess'[sessions[id]].pc = "deregistered"]_vars
\* What the ReadGraph that goroutine p is in saw stored when it began.
SeenBy(p) ==
    LET k == CHOOSE i \in 1..Len(hist) :
                 /\ hist[i].proc = p /\ hist[i].op = "ReadGraph"
                 /\ \A j \in (i + 1)..Len(hist) : ~(hist[j].proc = p /\ hist[j].op = "ReadGraph")
    IN  hist[k].seen

\* C33: when cascading deletes, creates and reads of two goroutines run
\* concurrently on overlapping entities, the store they leave once all have
\* returned is the store some serial order of the same calls leaves; no step
\* removes a relation or an observation and leaves its entities stored; and no
\* ReadGraph returns an entity without a relation or an observation of it that
\* was stored when the call began.
C33_SerialOrderNoHalfDelete ==
    /\ []((\A p \in Procs : call[p].pc = "idle") =>
            \E order \in Orders : RowsOf(SerialOrder(EmptyDB, order, 1)) = RowsOf(db))
    /\ [][/\ \A r \in db.rels \ db'.rels : ~({r.from, r.to} \subseteq EntityNames(db'))
          /\ \A o \in db.obs \ db'.obs : o.entityName \notin EntityNames(db')]_vars
    /\ [][\A p \in Procs :
            (call[p].pc = "observations" /\ call'[p].pc = "idle") =>
                LET names == {e.name : e \in ret'.entities}
                IN  /\ \A r \in SeenBy(p).rels \ ret'.relations :
                           ~({r.from, r.to} \subseteq names)
                    /\ \A o \in SeenBy(p).obs \ ret'.observations :
                           o.entityName \notin names]_vars

\* C34: what a ReadGraph call returned is consistent even when writes ran
\* during the call: every relation and every observation returned names
\* entities that are among the entities returned.
C34_ReadGraphReferencesReturned ==
    ret.op = "ReadGraph" =>
        LET names == {e.name : e \in ret.entities}
        IN  /\ \A r \in ret.relations : r.from \in names /\ r.to \in names
            /\ \A o \in ret.observations : o.entityName \in names

\* Params that are an object with a string name and an object arguments.
NameAndArguments(params) == params.object /\ params.name # Missing /\ params.hasArguments

\* The answer "Unknown tool" of handleToolCall.
UnknownTool(resp) == resp.kind = "error" /\ resp.code = -32601 /\ resp.text = Text("Unknown tool", 0)

\* C35: a tools/call request with a name and arguments is answered with
\* "Unknown tool" exactly when its name is not one of the nine names of the
\* catalogue of tools/list.
C35_AcceptsTheCatalogue ==
    [][\A line \in NameLines : \A f \in Failures(line) :
         ( /\ line.kind = "json" /\ line.method = "tools/call" /\ NameAndArguments(line.params)
           /\ Stdio(line, f) ) =>
            (UnknownTool(HandleJSONRPCMethod(db, Conn, Decode(line), f).resp)
                <=> line.params.name \notin ToolNames)]_vars

\* C35, amended: a tools/call request with a name and arguments is answered
\* with "Unknown tool" exactly when its name is neither one of the nine names
\* of the catalogue nor one of the older names create_entity, create_relation
\* and create_observation; for a request with an id that answer, or the
\* tool's result, is the line written.
C35_AcceptsCatalogueAndLegacy ==
    [][\A line \in NameLines : \A f \in Failures(line) :
         ( /\ line.kind = "json" /\ line.method = "tools/call" /\ NameAndArguments(line.params)
           /\ Stdio(line, f) ) =>
            LET resp == HandleJSONRPCMethod(db, Conn, Decode(line), f).resp
            IN  /\ UnknownTool(resp) <=>
                       line.params.name \notin ToolNames \cup LegacyToolNames
                /\ ~UnknownTool(resp) => resp.kind = "result"
                /\ Decode(line).id # NilID => stdio'.last = resp]_vars

\* The stdio loop has served the older tool create_entity: Alice is stored and
\* the line written is its result.
C35_Witness ==
    /\ stdio.last.kind = "result" /\ ~stdio.last.isError
    /\ stdio.last.text = Text("Successfully created entity", 1)
    /\ "Alice" \in EntityNames(db)

\* What the dispatcher returns for a request as a function of the store's
\* content and the request alone.
Dispatch(d, req) == HandleJSONRPCMethod(d, InitConn, req, NoFailure)

\* C36: on either transport, in any session and after any requests, a
\* dispatched request changes the store and is answered as the store's
\* content and the request alone determine; a request answered with the
\* protocol error -32601 or -32602 leaves the store as it was.
C36_DispatchIsAFunction ==
    [][/\ \A line \in DispatchLines :
            Stdio(line, NoFailure) =>
                LET req == Decode(line)
                    r == Dispatch(db, req)
                IN  /\ db' = r.db
                    /\ req.id # NilID => stdio'.last = r.resp
                    /\ r.resp.code \in {-32601, -32602} => db' = db
       /\ \A c \in SSEConns :
            sess'[c].calls # sess[c].calls =>
                LET req == Head(sess[c].messageChan)
                    r == Dispatch(db, req)
                IN  /\ db' = r.db
                    /\ req.id # NilID => sess'[c].last = r.resp
                    /\ r.resp.code \in {-32601, -32602} => db' = db]_vars

\* The rows of the entity called name: its type and its observations.
RowsOfEntity(d, name) ==
    [types |-> {e.type : e \in {x \in d.ents : x.name = name}},
     observations |-> {o \in d.obs : o.entityName = name}]

\* C37: a create_entities call leaves the type and the stored observations of
\* every entity that existed before the call as they were, and the same call
\* issued again leaves the store as the first call left it.
C37_CreateEntitiesIgnoresExisting ==
    [][(ret'.op = "create_entities" /\ CallToolsCall("g1", "create_entities", ret'.args)) =>
          /\ \A i \in 1..Len(ret'.args) :
                LET item == ret'.args[i]
                IN  (WellFormed("create_entities", item) /\ EntityExists(db, item.name)) =>
                        RowsOfEntity(db', item.name) = RowsOfEntity(db, item.name)
          /\ handleToolCall(db', Conn, ToolRequest("create_entities", ret'.args), NoFailure).db
                = db']_vars

\* The relations of d from, to and of the type the item names.
RelationsLike(d, item) ==
    {r \in d.rels : r.from = item.from /\ r.to = item.to /\ r.type = item.relationType}

\* C38: a create_relations call creates no relation for an item naming the
\* from, to and type of a stored relation, and the number it reports counts
\* the relations it created; the store never holds two relations with the
\* same from, to and type.
C38_CreateRelationsSkipsDuplicates ==
    /\ [](\A r, s \in db.rels :
            (r.from = s.from /\ r.to = s.to /\ r.type = s.type) => r = s)
    /\ [][(ret'.op = "create_relations" /\ CallToolsCall("g1", "create_relations", ret'.args)) =>
            /\ \A i \in 1..Len(ret'.args) :
                  LET item == ret'.args[i]
                  IN  (WellFormed("create_relations", item) /\ RelationsLike(db, item) # {}) =>
                          RelationsLike(db', item) = RelationsLike(db, item)
            /\ ~ret'.err => ret'.n = Cardinality(db'.rels) - Cardinality(db.rels)]_vars

====
